---- MODULE Spec2Model ----
(***************************************************************************)
(* GovSniper: the tender lifecycle (scrape, download, analyze, notify,     *)
(* cleanup), the payment webhook and the lead-generation sub-pipeline,     *)
(* modelled from src/src/services, src/src/scheduler and src/src/api.      *)
(*                                                                         *)
(* The database is the only shared state.  Every job run and every webhook *)
(* request owns one SQLAlchemy session (expire_on_commit=False,            *)
(* autoflush=False): rows are loaded once, kept as a snapshot, and a       *)
(* commit writes the columns whose value differs from the loaded one.      *)
(* The scheduler (main.py, add_job without max_instances) runs at most one *)
(* instance of each job at a time; different jobs and webhook requests     *)
(* interleave at every await.                                              *)
(***************************************************************************)
EXTENDS Integers, Sequences, FiniteSets, TLC

\* ------------------------------------------------------------------ bounds
NumTenders == 2
NumClients == 1
MaxFeed == 2
MaxRows == 2
MaxBlocks == 1
NumInstances == 2
NumRequests == 2
MaxCategories == 6
MaxTitleWords == 6
TableSize == 63
MaxBreaks == 2
MaxBlank == 2
MaxTitleChars == 3
MaxExtraRows == 2
MaxChunks == 2
MaxRuns == 3

Tenders == 1..NumTenders
Clients == 1..NumClients

\* ------------------------------------------------------- program constants
DownloadLimit == 20
AnalyzeLimit == 10
NotifyLimit == 10
Retries == 2
MaxAlternatives == 5
NumTenderTypes == 12
MinTenderPrice == 100000
ExtractLimit == 20
ContactsLimit == 50
ClientsLimit == 50
MaxKeywords == 5
ChunkSize == 12000
Overlap == 500
ParagraphWindow == 1000
SentenceWindow == 500
MinAuditLength == 100
LeadgenMinAge == 7
LeadgenMaxAge == 30
ReportPriceTier1 == 990
ReportPriceTier2 == 1990
ReportPriceTier3 == 4990
Tier2From == 1000000
Tier3From == 10000000
StopWords == {"stop"}

TenderStatus == <<"NEW", "DOWNLOADED", "ANALYZED", "NOTIFIED", "SOLD">>

PaymentStatus == {"pending", "waiting_for_capture", "succeeded", "canceled", "refunded"}

\* position of a status in the lifecycle order
Rank(s) == CHOOSE i \in 1..Len(TenderStatus) : TenderStatus[i] = s

VARIABLES
  tenders,     \* tenders table: [Tenders -> row], status "ABSENT" = no row
  created,     \* ids of the stored tenders, oldest created_at first
  clients,     \* clients table: [Clients -> row]
  teasers,     \* notifications of type teaser: [Tenders -> [Clients -> Seq(status)]]
  payments,    \* payments table: [Tenders -> [Clients -> row]], status "none" = no row
  dl,          \* run of download_documents_job
  an,          \* run of analyze_tenders_job
  nt,          \* runs of send_notifications_job: [Instances -> run]
  cl,          \* run of cleanup_stale_data_job
  wh,          \* webhook request being handled
  response,    \* what the finished webhook request returns to the gateway
  rss,         \* the RSS feed of the procurement site
  sc,          \* run of scrape_rss_job
  participants,  \* tender_participants table: Seq(row)
  loser_clients, \* clients table, the rows with an email: sequence of rows
  ex,          \* run of extract_losers_job
  fc,          \* runs of process_pending_contacts: [Requests -> run]
  cc,          \* runs of process_pending_clients: [Requests -> run]
  settings,    \* configuration read at start-up
  call         \* a call of a function of the services: its input, its steps

\* what the ingest steps leave alone, and what the lead-generation steps do
feedVars == <<created, rss, sc>>
leadVars == <<participants, loser_clients, ex, fc, cc, settings, call>>

vars == <<tenders, clients, teasers, payments, dl, an, nt, cl, wh, response,
          feedVars, leadVars>>

\* ------------------------------------------------------------ rows, helpers
\* risk_score, margin_estimate and teaser_description of a tender that was
\* not analyzed: NULL (-1 stands for the NULL risk score)
NoTeaser == [risk_score |-> 0 - 1, margin_estimate |-> "null",
             description |-> "null"]

\* Tender(...) as created by process_feed: status NEW, nothing else set
NewTender == [status |-> "NEW", raw_text |-> "null", teaser |-> NoTeaser,
              deep_analysis |-> "null"]

NoPayment == [status |-> "none", report_sent |-> FALSE]

Words == {"kw"}

\* title of every tender of the pipeline fixture
TitleOf(t) == {"kw"}

RECURSIVE OldestFirst(_)
OldestFirst(S) ==
  IF S = {} THEN <<>>
  ELSE LET m == CHOOSE x \in S : \A y \in S : x <= y
       IN <<m>> \o OldestFirst(S \ {m})

\* a query without its limit
Limit_none(seq, n) == seq

Limit(seq, n) == SubSeq(seq, 1, IF Len(seq) < n THEN Len(seq) ELSE n)

\* select(Tender).where(status == st).order_by(created_at).limit(n)
SelectByStatus(st, n) ==
  Limit(SelectSeq(created, LAMBDA t : tenders[t].status = st), n)

\* a commit writes a column only when the session changed it
Upd(row, col, loaded, new) ==
  IF new # loaded THEN [row EXCEPT ![col] = new] ELSE row

IdleDl == [pc |-> "idle", batch |-> <<>>, idx |-> 0,
           tried |-> <<>>, html |-> FALSE, ret |-> "none"]
IdleAn == [pc |-> "idle", batch |-> <<>>, idx |-> 0, raw |-> <<>>]
IdleNt == [pc |-> "idle", batch |-> <<>>, idx |-> 0, matching |-> <<>>,
           row |-> "none"]
IdleCl == [pc |-> "idle", batch |-> {}, deep |-> {}]
\* a batch loop after the commit of one more row: the next row, or the end
\* of the run, where the session is closed and finish_run is recorded
NextRow(run, idle) ==
  IF run.idx = Len(run.batch) THEN idle ELSE [run EXCEPT !.idx = @ + 1]

\* a handler that lets the exception of a row end the run
AfterError_reraise(run, idle) == idle

\* `except Exception as e: logger.error(...)` inside the loop of a batch:
\* nothing of the row is committed and the loop takes the next row
AfterError(run, idle) == NextRow(run, idle)

\* the application instances that work on the database: each has a
\* scheduler of its own, which runs one instance of a job at a time
Instances == 1..NumInstances

IdleWh == [pc |-> "idle", t |-> 0, c |-> 0, status |-> "none", raw |-> "null",
           deep |-> "null", mail |-> "none"]

\* ------------------------------------------------------ document download
FetchOutcomes == {"ok", "404", "5xx", "timeout", "error"}
FailKinds == FetchOutcomes \ {"ok"}

\* _fetch_tender_page without raise_for_status: the body of an error
\* response is returned as the page
fetch_attempt_unchecked_status(outs, attempt) ==
  LET o == outs[attempt + 1]
  IN [page |-> o \in {"ok", "404", "5xx"}, attempts |-> attempt + 1]

\* DocumentService._fetch_tender_page: outs[i] is what attempt i meets
RECURSIVE fetch_attempt(_, _)
fetch_attempt(outs, attempt) ==
  LET o == outs[attempt + 1]
  IN IF o = "ok" THEN [page |-> TRUE, attempts |-> attempt + 1]
     ELSE IF o = "404" THEN [page |-> FALSE, attempts |-> attempt + 1]
     ELSE IF o = "5xx" /\ attempt < Retries THEN fetch_attempt(outs, attempt + 1)
     ELSE IF o = "5xx" THEN [page |-> FALSE, attempts |-> attempt + 1]
     ELSE IF o = "timeout" /\ attempt < Retries THEN fetch_attempt(outs, attempt + 1)
     ELSE [page |-> FALSE, attempts |-> attempt + 1]

fetch_tender_page(outs) == fetch_attempt(outs, 0)

\* the same answer at every attempt
Always(o) == [i \in 1..(Retries + 1) |-> o]

\* DocumentService._get_alternative_urls: the first 5 tender types whose
\* canonical documents URL differs from the URL already tried
RECURSIVE alt_types(_, _)
alt_types(own, ty) ==
  IF ty > NumTenderTypes THEN <<>>
  ELSE IF ty = own THEN alt_types(own, ty + 1)
  ELSE <<ty>> \o alt_types(own, ty + 1)

get_alternative_urls(own) == Limit(alt_types(own, 1), MaxAlternatives)

\* the tender type in the URL of tender t (0: not a canonical URL)
UrlTypeOf(t) == t - 1

\* page URLs in the order process_tender turns to them
PageUrls(t) ==
  <<"documents">> \o
  [i \in 1..Len(get_alternative_urls(UrlTypeOf(t))) |->
      <<"alt", get_alternative_urls(UrlTypeOf(t))[i]>>] \o
  <<"original">>

\* process_tender lines 514-519: alternatives until one answers
RECURSIVE try_alternatives(_, _, _)
try_alternatives(urls, out, i) ==
  IF i > Len(urls) - 1 THEN [html |-> FALSE, tried |-> <<>>]
  ELSE IF fetch_tender_page(Always(out[i])).page
       THEN [html |-> TRUE, tried |-> <<urls[i]>>]
       ELSE LET rest == try_alternatives(urls, out, i + 1)
            IN [html |-> rest.html, tried |-> <<urls[i]>> \o rest.tried]

\* process_tender that turns to the original URL whatever came before
fetch_pages_original_always(urls, out) ==
  LET first == fetch_tender_page(Always(out[1])).page
      alts == IF first THEN [html |-> TRUE, tried |-> <<>>]
              ELSE try_alternatives(urls, out, 2)
      n == Len(urls)
      last == [html |-> alts.html \/ fetch_tender_page(Always(out[n])).page,
               tried |-> <<urls[n]>>]
  IN [html |-> last.html, tried |-> <<urls[1]>> \o alts.tried \o last.tried]

\* process_tender lines 507-524: documents page, then the alternatives,
\* then the original URL; out[i] is the outcome met at urls[i]
fetch_pages(urls, out) ==
  LET first == fetch_tender_page(Always(out[1])).page
      alts == IF first THEN [html |-> TRUE, tried |-> <<>>]
              ELSE try_alternatives(urls, out, 2)
      n == Len(urls)
      last == IF alts.html THEN [html |-> TRUE, tried |-> <<>>]
              ELSE [html |-> fetch_tender_page(Always(out[n])).page,
                    tried |-> <<urls[n]>>]
  IN [html |-> last.html, tried |-> <<urls[1]>> \o alts.tried \o last.tried]

\* outcome vectors: URLs before k fail with f, URL k answers, later URLs
\* meet `rest`; k = 0 is the case where every URL fails with f
PageOutcomes(n) ==
  { [i \in 1..n |-> IF k # 0 /\ i = k THEN "ok"
                    ELSE IF k # 0 /\ i > k THEN rest ELSE f] :
      k \in 0..n, f \in FailKinds, rest \in {"ok", "404"} }

\* the site answers every URL alike
UniformOutcomes(n) == { [i \in 1..n |-> o] : o \in FetchOutcomes }

\* download_documents_job / process_new_tenders lines 582-588; a run that
\* selects nothing ends at once and changes nothing
process_new_tenders ==
  /\ dl.pc = "idle"
  /\ SelectByStatus("NEW", DownloadLimit) # <<>>
  /\ dl' = [IdleDl EXCEPT !.pc = "run",
                          !.batch = SelectByStatus("NEW", DownloadLimit),
                          !.idx = 1]
  /\ UNCHANGED <<tenders, clients, teasers, payments, an, nt, cl, wh,
                 response>>
  /\ UNCHANGED <<feedVars, leadVars>>

\* process_tender that leaves an unreachable tender NEW, to be tried again
process_tender_retry_later(out, text) ==
  /\ dl.pc = "run"
  /\ dl.idx <= Len(dl.batch)
  /\ LET t == dl.batch[dl.idx]
         f == fetch_pages(PageUrls(t), out)
     IN /\ tenders' = IF f.html
                      THEN [tenders EXCEPT ![t] =
                              [@ EXCEPT !.status = "DOWNLOADED", !.raw_text = text]]
                      ELSE tenders
        /\ dl' = [dl EXCEPT !.idx = @ + 1,
                            !.tried = f.tried,
                            !.html = f.html,
                            !.ret = IF f.html THEN "true" ELSE "false"]
  /\ UNCHANGED <<clients, teasers, payments, an, nt, cl, wh, response>>
  /\ UNCHANGED <<feedVars, leadVars>>

\* process_tender for the next tender of the batch: page outcomes `out`,
\* `text` is what the documents of the page yield
process_tender(out, text) ==
  /\ dl.pc = "run"
  /\ dl.idx <= Len(dl.batch)
  /\ LET t == dl.batch[dl.idx]
         f == fetch_pages(PageUrls(t), out)
         raw == IF f.html THEN text ELSE "empty"
     IN /\ tenders' = [tenders EXCEPT ![t] =
              [@ EXCEPT !.status = "DOWNLOADED", !.raw_text = raw]]
        /\ dl' = [dl EXCEPT !.idx = @ + 1,
                            !.tried = f.tried,
                            !.html = f.html,
                            !.ret = IF f.html THEN "true" ELSE "false"]
  /\ UNCHANGED <<clients, teasers, payments, an, nt, cl, wh, response>>
  /\ UNCHANGED <<feedVars, leadVars>>

\* process_new_tenders line 598 and download_documents_job lines 58-59: the
\* batch is over, the session is closed and finish_run is recorded
download_documents_job_finish ==
  /\ dl.pc = "run"
  /\ dl.idx > Len(dl.batch)
  /\ dl' = IdleDl
  /\ UNCHANGED <<tenders, clients, teasers, payments, an, nt, cl, wh, response>>
  /\ UNCHANGED <<feedVars, leadVars>>

\* ---------------------------------------------------------------- analyze
\* analyze_tenders_job lines 75-81
analyze_tenders_job ==
  /\ an.pc = "idle"
  /\ LET b == SelectByStatus("DOWNLOADED", AnalyzeLimit)
     IN /\ b # <<>>
        /\ an' = [IdleAn EXCEPT !.pc = "run", !.batch = b, !.idx = 1,
                  !.raw = [i \in 1..Len(b) |-> tenders[b[i]].raw_text]]
  /\ UNCHANGED <<tenders, clients, teasers, payments, dl, nt, cl, wh,
                 response>>
  /\ UNCHANGED <<feedVars, leadVars>>

\* analyze_tenders_job lines 88-90: the fixed values of a tender without text
PlaceholderTeaser == [risk_score |-> 50, margin_estimate |-> "undetermined",
                      description |-> "documentation unavailable"]

\* AIService.analyze_teaser lines 192-200: the safe defaults
DefaultTeaser == [risk_score |-> 50, margin_estimate |-> "needs analysis",
                  description |-> "manual check needed"]

\* "risk_score" of the model's JSON answer: absent, a value int() rejects,
\* or a number
Missing == [kind |-> "absent", value |-> 0]
NotANumber == [kind |-> "text", value |-> 0]
Number(v) == [kind |-> "number", value |-> v]
RiskReplies ==
  {Missing, NotANumber} \cup {Number(v) : v \in {0 - 5, 0, 37, 100, 250}}

\* what the call of the model yields: no call, an exception (API error,
\* invalid JSON), or a JSON object with or without margin and description
Uncalled == [kind |-> "uncalled", risk_score |-> Missing, fields |-> "absent"]
Raises == [kind |-> "raise", risk_score |-> Missing, fields |-> "absent"]
JsonReply(r, f) == [kind |-> "json", risk_score |-> r, fields |-> f]
Replies ==
  {Uncalled, Raises} \cup
  {JsonReply(r, f) : r \in RiskReplies, f \in {"given", "absent"}}
OkReply == JsonReply(Number(37), "given")

\* the risk score of the answer taken as it is
Clamp_unbounded(v) == v

\* min(100, max(0, v))
Clamp(v) == IF v < 0 THEN 0 ELSE IF v > 100 THEN 100 ELSE v

\* AIService.analyze_teaser lines 172-200: the parsed answer with its
\* defaults, or the safe defaults when the call or the parsing raises
analyze_teaser(reply) ==
  IF reply.kind = "json" /\ reply.risk_score.kind # "text"
  THEN [risk_score |-> Clamp(IF reply.risk_score.kind = "absent" THEN 50
                             ELSE reply.risk_score.value),
        margin_estimate |-> IF reply.fields = "given" THEN "ai"
                            ELSE "undetermined",
        description |-> IF reply.fields = "given" THEN "ai"
                        ELSE "description unavailable"]
  ELSE DefaultTeaser

\* analyze_tenders_job lines 84-110, one tender
analyze_tender(reply) ==
  /\ an.pc = "run"
  /\ LET t == an.batch[an.idx]
         notext == an.raw[an.idx] \in {"null", "empty"}
     IN /\ notext <=> reply.kind = "uncalled"
        /\ tenders' = [tenders EXCEPT ![t] =
              [@ EXCEPT !.status = "ANALYZED",
                        !.teaser = IF notext THEN PlaceholderTeaser
                                   ELSE analyze_teaser(reply)]]
        /\ an' = NextRow(an, IdleAn)
  /\ UNCHANGED <<clients, teasers, payments, dl, nt, cl, wh, response>>
  /\ UNCHANGED <<feedVars, leadVars>>

\* ----------------------------------------------------------------- notify
\* Client.matches_tender
matches_tender(c, t) ==
  /\ clients[c].is_active
  /\ clients[c].keywords \cap TitleOf(t) # {}

\* scalar_one_or_none() on the teaser rows of a pair raises when two exist
TeaserLookupRaises(t) ==
  \E c \in Clients : matches_tender(c, t) /\ Len(teasers[t][c]) > 1

\* find_matching_clients without the look-up of an earlier teaser
find_matching_clients_unchecked(t) ==
  OldestFirst({c \in Clients : matches_tender(c, t)})

\* NotificationService.find_matching_clients
find_matching_clients(t) ==
  OldestFirst({c \in Clients : /\ matches_tender(c, t)
                               /\ teasers[t][c] = <<>>})

\* process_analyzed_tenders lines 151-157, in the application instance i
process_analyzed_tenders(i) ==
  /\ nt[i].pc = "idle"
  /\ SelectByStatus("ANALYZED", NotifyLimit) # <<>>
  /\ nt' = [nt EXCEPT ![i] =
              [IdleNt EXCEPT !.pc = "tender",
                             !.batch = SelectByStatus("ANALYZED", NotifyLimit),
                             !.idx = 1]]
  /\ UNCHANGED <<tenders, clients, teasers, payments, dl, an, cl, wh,
                 response>>
  /\ UNCHANGED <<feedVars, leadVars>>

\* send_teaser_notifications line 82; a raising lookup is caught at line 170
\* and the tender is left as it is
send_teaser_notifications(i) ==
  /\ nt[i].pc = "tender"
  /\ LET t == nt[i].batch[nt[i].idx]
     IN IF TeaserLookupRaises(t)
        THEN nt' = [nt EXCEPT ![i] = NextRow(@, IdleNt)]
        ELSE nt' = [nt EXCEPT ![i] = [@ EXCEPT !.pc = "client",
                                        !.matching = find_matching_clients(t)]]
  /\ UNCHANGED <<tenders, clients, teasers, payments, dl, an, cl, wh,
                 response>>
  /\ UNCHANGED <<feedVars, leadVars>>

\* lines 96-125: the row is flushed as pending, then the email is sent;
\* mail is the provider's answer
send_teaser_email(i, mail) ==
  /\ nt[i].pc = "client"
  /\ nt[i].matching # <<>>
  /\ nt' = [nt EXCEPT ![i] = [@ EXCEPT !.pc = "commit",
                                !.row = IF mail = "id" THEN "sent" ELSE "failed"]]
  /\ UNCHANGED <<tenders, clients, teasers, payments, dl, an, cl, wh,
                 response>>
  /\ UNCHANGED <<feedVars, leadVars>>

\* line 127: the notification row becomes durable
commit_notification(i) ==
  /\ nt[i].pc = "commit"
  /\ LET t == nt[i].batch[nt[i].idx]
         c == Head(nt[i].matching)
     IN teasers' = [teasers EXCEPT ![t][c] = Append(@, nt[i].row)]
  /\ nt' = [nt EXCEPT ![i] = [@ EXCEPT !.pc = "client", !.matching = Tail(@),
                                !.row = "none"]]
  /\ UNCHANGED <<tenders, clients, payments, dl, an, cl, wh, response>>
  /\ UNCHANGED <<feedVars, leadVars>>

\* process_analyzed_tenders that advances a tender only when a teaser of it
\* was sent
mark_notified_if_sent(i) ==
  /\ nt[i].pc = "client"
  /\ nt[i].matching = <<>>
  /\ LET t == nt[i].batch[nt[i].idx]
         any == \E c \in Clients : \E k \in 1..Len(teasers[t][c]) :
                   teasers[t][c][k] = "sent"
     IN tenders' = IF any
                   THEN [tenders EXCEPT ![t] = [@ EXCEPT !.status = "NOTIFIED"]]
                   ELSE tenders
  /\ nt' = [nt EXCEPT ![i] = NextRow([@ EXCEPT !.pc = "tender"], IdleNt)]
  /\ UNCHANGED <<clients, teasers, payments, dl, an, cl, wh, response>>
  /\ UNCHANGED <<feedVars, leadVars>>

\* process_analyzed_tenders lines 166-168
mark_notified(i) ==
  /\ nt[i].pc = "client"
  /\ nt[i].matching = <<>>
  /\ LET t == nt[i].batch[nt[i].idx]
     IN tenders' = [tenders EXCEPT ![t] = [@ EXCEPT !.status = "NOTIFIED"]]
  /\ nt' = [nt EXCEPT ![i] = NextRow([@ EXCEPT !.pc = "tender"], IdleNt)]
  /\ UNCHANGED <<clients, teasers, payments, dl, an, cl, wh, response>>
  /\ UNCHANGED <<feedVars, leadVars>>

\* ---------------------------------------------------------------- cleanup
\* cleanup_stale_data_job lines 37-44; at the time of the run the `old`
\* oldest tenders were created before the retention cutoff
cleanup_stale_data_job(old) ==
  /\ cl.pc = "idle"
  /\ LET b == {t \in Tenders : /\ tenders[t].status \in {"ANALYZED", "NOTIFIED"}
                               /\ \E i \in 1..old : i <= Len(created) /\ created[i] = t
                               /\ tenders[t].raw_text # "null"}
     IN /\ b # {}
        /\ cl' = [pc |-> "selected", batch |-> b,
                  deep |-> {t \in b : tenders[t].deep_analysis # "null"}]
  /\ UNCHANGED <<tenders, clients, teasers, payments, dl, an, nt, wh,
                 response>>
  /\ UNCHANGED <<feedVars, leadVars>>

\* lines 46-56: one commit for the whole batch
cleanup_commit ==
  /\ cl.pc = "selected"
  /\ tenders' = [t \in Tenders |->
        IF t \in cl.batch
        THEN [tenders[t] EXCEPT
                 !.raw_text = "null",
                 !.deep_analysis = IF t \in cl.deep THEN "null" ELSE @]
        ELSE tenders[t]]
  /\ cl' = IdleCl
  /\ UNCHANGED <<clients, teasers, payments, dl, an, nt, wh, response>>
  /\ UNCHANGED <<feedVars, leadVars>>

\* --------------------------------------------------------------- payments
\* PaymentService.create_payment, reached through the payment link that
\* only the teaser email carries (notification_service.py line 93); the
\* model keeps one payment per (tender, client)
create_payment(t, c) ==
  /\ payments[t][c].status = "none"
  /\ \E i \in 1..Len(teasers[t][c]) : teasers[t][c][i] = "sent"
  /\ payments' = [payments EXCEPT ![t][c] =
                     [status |-> "pending", report_sent |-> FALSE]]
  /\ UNCHANGED <<tenders, clients, teasers, dl, an, nt, cl, wh,
                 response>>
  /\ UNCHANGED <<feedVars, leadVars>>

WebhookEvents == {"payment.succeeded", "payment.canceled", "refund.succeeded",
                  "payment.waiting_for_capture"}
PayloadStatuses == {"succeeded", "canceled", "bogus"}

\* the handler is left: the session is closed, `r` goes to the gateway
Return(r) ==
  /\ wh' = [IdleWh EXCEPT !.pc = "done"]
  /\ response' = r

\* yookassa_webhook lines 89-118 with handle_webhook lines 143-166; the
\* object id of the delivery is the yookassa_id of the payment of (t, c),
\* known when that payment row exists
yookassa_webhook(ev, st, t, c) ==
  /\ wh.pc = "idle"
  /\ LET known == payments[t][c].status # "none"
         handled == ev \in {"payment.succeeded", "payment.canceled"}
     IN IF ~handled \/ ~known
        THEN /\ Return("ok")
             /\ UNCHANGED payments
        ELSE IF st \notin PaymentStatus
        THEN \* PaymentStatus(status) raises ValueError: caught at line 99
             \* for payment.succeeded, not caught for payment.canceled
             /\ Return(IF ev = "payment.succeeded" THEN "error" ELSE "http500")
             /\ UNCHANGED payments
        ELSE /\ payments' = [payments EXCEPT ![t][c].status = st]
             /\ IF ev = "payment.succeeded" /\ st = "succeeded"
                THEN /\ wh' = [IdleWh EXCEPT !.pc = "audit", !.t = t, !.c = c,
                                  !.status = tenders[t].status,
                                  !.raw = tenders[t].raw_text,
                                  !.deep = tenders[t].deep_analysis]
                     /\ UNCHANGED response
                ELSE Return("ok")
  /\ UNCHANGED <<tenders, clients, teasers, dl, an, nt, cl>>
  /\ UNCHANGED <<feedVars, leadVars>>

\* AIService.analyze_deep_audit on the loaded text
analyze_deep_audit(raw) == IF raw = "text" THEN "audit" ELSE "placeholder"

\* _process_successful_payment lines 194-200
deep_analysis_step(ai) ==
  /\ wh.pc = "audit"
  /\ IF ai = "raise"
     THEN /\ Return("error")
          /\ UNCHANGED tenders
     ELSE /\ tenders' = [tenders EXCEPT ![wh.t] =
               Upd(@, "deep_analysis", wh.deep, analyze_deep_audit(wh.raw))]
          /\ wh' = [wh EXCEPT !.pc = "send"]
          /\ UNCHANGED response
  /\ UNCHANGED <<clients, teasers, payments, dl, an, nt, cl>>
  /\ UNCHANGED <<feedVars, leadVars>>

\* lines 202-220: PDF, report email, report_sent
send_report_email(out) ==
  /\ wh.pc = "send"
  /\ IF out = "raise"
     THEN /\ Return("error")
          /\ UNCHANGED payments
     ELSE /\ wh' = [wh EXCEPT !.pc = "sold", !.mail = out]
          /\ UNCHANGED response
          /\ IF out = "id"
             THEN payments' = [payments EXCEPT ![wh.t][wh.c].report_sent = TRUE]
             ELSE UNCHANGED payments
  /\ UNCHANGED <<tenders, clients, teasers, dl, an, nt, cl>>
  /\ UNCHANGED <<feedVars, leadVars>>

\* the last step of the handler without the clearing of the raw text
mark_sold_keeps_text ==
  /\ wh.pc = "sold"
  /\ tenders' = [tenders EXCEPT ![wh.t] = Upd(@, "status", wh.status, "SOLD")]
  /\ Return("ok")
  /\ UNCHANGED <<clients, teasers, payments, dl, an, nt, cl>>
  /\ UNCHANGED <<feedVars, leadVars>>

\* lines 222-228: raw text cleared, status SOLD
mark_sold ==
  /\ wh.pc = "sold"
  /\ tenders' = [tenders EXCEPT ![wh.t] =
        Upd(Upd(@, "raw_text", wh.raw, "null"), "status", wh.status, "SOLD")]
  /\ Return("ok")
  /\ UNCHANGED <<clients, teasers, payments, dl, an, nt, cl>>
  /\ UNCHANGED <<feedVars, leadVars>>

\* the gateway has the answer of the delivery
webhook_answered ==
  /\ wh.pc = "done"
  /\ wh' = IdleWh
  /\ response' = "none"
  /\ UNCHANGED <<tenders, clients, teasers, payments, dl, an, nt, cl>>
  /\ UNCHANGED <<feedVars, leadVars>>

\* ----------------------------------------------------------------- ingest
\* RSSEntry.price: a parsed amount, or None
NoPrice == [known |-> FALSE, value |-> 0]
Price(v) == [known |-> TRUE, value |-> v]

\* titles and prices of the feed fixture: a plain notice without a price,
\* at the minimum price, below it, and one with a stop word in its title
EntryKinds ==
  { [title |-> {"kw"}, price |-> NoPrice],
    [title |-> {"kw"}, price |-> Price(MinTenderPrice)],
    [title |-> {"kw"}, price |-> Price(MinTenderPrice - 1)],
    [title |-> {"kw", "stop"}, price |-> Price(MinTenderPrice)] }

\* RSSEntry as fetch_rss builds it
Entries ==
  { [external_id |-> t, title |-> k.title, price |-> k.price] :
      t \in Tenders, k \in EntryKinds }

Feeds == UNION { [1..n -> Entries] : n \in 0..MaxFeed }

IdleSc == [pc |-> "idle", entries |-> <<>>, idx |-> 0, pending |-> <<>>,
           again |-> FALSE, ret |-> 0, raised |-> FALSE]

\* ScraperService._should_skip
should_skip(title, price) ==
  \/ title \cap StopWords # {}
  \/ price.known /\ price.value < MinTenderPrice

\* process_feed without the look-up of the stored tender
tender_exists_never(external_id) == FALSE

\* process_feed lines 219-223: select(Tender).where(external_id == ...)
tender_exists(external_id) == tenders[external_id].status # "ABSENT"

\* the site publishes another feed; a run works on the list it fetched, so
\* a change during a run is the same as a change right after it
feed_changes(f) ==
  /\ sc.pc = "idle"
  /\ f # rss.feed
  /\ rss' = [feed |-> f, ingested |-> FALSE]
  /\ UNCHANGED <<tenders, clients, teasers, payments, dl, an, nt, cl, wh,
                 response, created, sc, leadVars>>

\* scrape_rss_job / process_feed line 210: fetch_rss; a failed fetch yields
\* the empty list, as an empty feed does
process_feed ==
  /\ sc.pc = "idle"
  /\ sc' = [IdleSc EXCEPT !.pc = "run", !.entries = rss.feed, !.idx = 1,
                          !.again = rss.ingested]
  /\ UNCHANGED <<tenders, clients, teasers, payments, dl, an, nt, cl, wh,
                 response, created, rss, leadVars>>

\* process_feed lines 213-237, one entry: the new row is added to the
\* session and stays pending until the commit
process_entry ==
  /\ sc.pc = "run"
  /\ sc.idx <= Len(sc.entries)
  /\ LET e == sc.entries[sc.idx]
     IN sc' = [sc EXCEPT
                 !.idx = @ + 1,
                 !.pending = IF should_skip(e.title, e.price)
                                \/ tender_exists(e.external_id)
                             THEN @ ELSE Append(@, e.external_id)]
  /\ UNCHANGED <<tenders, clients, teasers, payments, dl, an, nt, cl, wh,
                 response, created, rss, leadVars>>

\* the unique constraint on tenders.external_id (tender.py line 47)
UniqueViolation(pending) ==
  \/ \E i, j \in 1..Len(pending) : i < j /\ pending[i] = pending[j]
  \/ \E i \in 1..Len(pending) : tender_exists(pending[i])

\* process_feed lines 239-241: one commit for the run; an IntegrityError
\* rolls the run back and reaches scrape_rss_job line 41
process_feed_commit ==
  /\ sc.pc = "run"
  /\ sc.idx > Len(sc.entries)
  /\ IF UniqueViolation(sc.pending)
     THEN /\ sc' = [sc EXCEPT !.pc = "done", !.pending = <<>>,
                              !.raised = TRUE]
          /\ UNCHANGED <<tenders, created>>
     ELSE /\ tenders' = [t \in Tenders |->
                IF \E i \in 1..Len(sc.pending) : sc.pending[i] = t
                THEN NewTender ELSE tenders[t]]
          /\ created' = created \o sc.pending
          /\ sc' = [sc EXCEPT !.pc = "done", !.pending = <<>>,
                              !.ret = Len(sc.pending)]
  /\ rss' = IF rss.feed = sc.entries THEN [rss EXCEPT !.ingested = TRUE]
            ELSE rss
  /\ UNCHANGED <<clients, teasers, payments, dl, an, nt, cl, wh, response,
                 leadVars>>

\* scrape_rss_job lines 38-42: finish_run, the session is closed
scrape_rss_job_finish ==
  /\ sc.pc = "done"
  /\ sc' = IdleSc
  /\ UNCHANGED <<tenders, clients, teasers, payments, dl, an, nt, cl, wh,
                 response, created, rss, leadVars>>

\* -------------------------------------------------------- lead generation
\* ParsedParticipant of the page fixture: company a lost and has an INN,
\* company b lost and has none, company c won
PageEntries ==
  { [company_name |-> "a", inn |-> TRUE, is_winner |-> FALSE],
    [company_name |-> "b", inn |-> FALSE, is_winner |-> FALSE],
    [company_name |-> "c", inn |-> TRUE, is_winner |-> TRUE] }

\* a results page: the rows of its participant table and its participant
\* blocks; NoPage: neither the results page nor the journal answers
Pages ==
  [table : UNION { [1..n -> PageEntries] : n \in 0..MaxRows },
   blocks : UNION { [1..n -> PageEntries] : n \in 0..MaxBlocks }]
NoPage == [table |-> <<>>, blocks |-> <<>>]

Emails == {"e1"}

\* _parse_participants_from_html lines 192-234: a block is added unless its
\* company name is in the list already
RECURSIVE parse_blocks(_, _)
parse_blocks(found, blocks) ==
  IF blocks = <<>> THEN found
  ELSE LET b == Head(blocks)
           seen == \E i \in 1..Len(found) :
                      found[i].company_name = b.company_name
       IN parse_blocks(IF seen THEN found ELSE Append(found, b), Tail(blocks))

\* _parse_participants_from_html: every table row is appended (lines
\* 135-190), then the blocks
parse_participants_from_html(page) == parse_blocks(page.table, page.blocks)

\* TenderParticipant(...) of extract_participants lines 292-299
NewParticipant(t, p) ==
  [tender_id |-> t, company_name |-> p.company_name, inn |-> p.inn,
   result |-> IF p.is_winner THEN "WINNER" ELSE "LOSER",
   contacts_fetched |-> FALSE, email |-> "null", phone |-> "null",
   address |-> "null", client_created |-> FALSE, lookups |-> 0]

IdleRun == [pc |-> "idle", batch |-> <<>>, idx |-> 0]

\* the lead-generation batches are started by POST /leadgen/trigger/...
\* (admin.py); requests are handled side by side
Requests == 1..NumRequests

\* the ids of the participant rows, in the order of the table
ParticipantIds == [i \in 1..Len(participants) |-> i]

\* process_completed_tenders lines 452-472; the tenders at positions
\* lo+1..hi of `created` are inside the age window at the time of the run
process_completed_tenders(lo, hi) ==
  /\ ex.pc = "idle"
  /\ lo <= hi /\ hi <= Len(created)
  /\ settings.leadgen_enabled
  /\ LET b == Limit(SelectSeq(SubSeq(created, lo + 1, hi),
                       LAMBDA t : tenders[t].status \in {"NOTIFIED", "SOLD"}),
                    ExtractLimit)
     IN /\ b # <<>>
        /\ ex' = [pc |-> "run", batch |-> b, idx |-> 1]
  /\ UNCHANGED <<tenders, clients, teasers, payments, dl, an, nt, cl, wh,
                 response, feedVars, participants, loser_clients, fc, cc,
                 settings, call>>

\* process_completed_tenders lines 474-489 with extract_participants: a
\* tender that has participants is passed over; the existence check of lines
\* 281-290 reads the stored rows, the rows added in this call are pending
extract_participants(page) ==
  /\ ex.pc = "run"
  /\ LET t == ex.batch[ex.idx]
         has == \E i \in 1..Len(participants) : participants[i].tender_id = t
         parsed == parse_participants_from_html(page)
         fresh == SelectSeq(parsed, LAMBDA p :
                    ~\E i \in 1..Len(participants) :
                        /\ participants[i].tender_id = t
                        /\ participants[i].company_name = p.company_name)
     IN /\ has => page = NoPage
        /\ participants' =
             IF has THEN participants
             ELSE participants \o
                    [i \in 1..Len(fresh) |-> NewParticipant(t, fresh[i])]
  /\ ex' = NextRow(ex, IdleRun)
  /\ UNCHANGED <<tenders, clients, teasers, payments, dl, an, nt, cl, wh,
                 response, feedVars, loser_clients, fc, cc, settings, call>>

\* the selection of process_pending_contacts with the email condition of
\* process_pending_clients
PendingContact_needs_email(p) ==
  ~p.contacts_fetched /\ p.inn /\ p.result = "LOSER" /\ p.email # "null"

\* process_pending_contacts lines 508-518
PendingContact(p) ==
  ~p.contacts_fetched /\ p.inn /\ p.result = "LOSER"

\* process_pending_contacts lines 504-520, started by request r
process_pending_contacts(r) ==
  /\ fc[r].pc = "idle"
  /\ settings.dadata_api_key
  /\ LET b == Limit(SelectSeq(ParticipantIds,
                       LAMBDA i : PendingContact(participants[i])),
                    ContactsLimit)
     IN /\ b # <<>>
        /\ fc' = [fc EXCEPT ![r] = [pc |-> "run", batch |-> b, idx |-> 1]]
  /\ UNCHANGED <<tenders, clients, teasers, payments, dl, an, nt, cl, wh,
                 response, feedVars, participants, loser_clients, ex, cc,
                 settings, call>>

\* the contact fields committed in a commit of their own, before the flag
fetch_contacts_data_first(r, info) ==
  /\ fc[r].pc = "run"
  /\ LET i == fc[r].batch[fc[r].idx]
         p == participants[i]
     IN /\ ~p.inn => info = "none"
        /\ participants' = [participants EXCEPT ![i] =
             [@ EXCEPT !.contacts_fetched = (info \notin Emails),
                       !.email = IF p.inn /\ info \in Emails THEN info
                                 ELSE @,
                       !.phone = IF p.inn /\ info # "none" THEN "phone"
                                 ELSE @,
                       !.address = IF p.inn /\ info # "none" THEN "address"
                                   ELSE @,
                       !.lookups = IF p.inn THEN @ + 1 ELSE @]]
  /\ fc' = [fc EXCEPT ![r] = NextRow(@, IdleRun)]
  /\ UNCHANGED <<tenders, clients, teasers, payments, dl, an, nt, cl, wh,
                 response, feedVars, loser_clients, ex, cc, settings, call>>

\* fetch_contacts_for_participant on the next row of the batch; info is the
\* answer of dadata_service.get_company_by_inn: "none" (not found, or the
\* lookup failed), a company without an email ("noemail"), or a company with
\* an email; lookups counts the queries sent for the participant.  The row
\* was loaded with contacts_fetched false: an attribute that is assigned the
\* value it was loaded with is not written by the commit of line 336
fetch_contacts_for_participant(r, info) ==
  /\ fc[r].pc = "run"
  /\ LET i == fc[r].batch[fc[r].idx]
         p == participants[i]
     IN /\ ~p.inn => info = "none"
        /\ participants' = [participants EXCEPT ![i] =
             [@ EXCEPT !.contacts_fetched = TRUE,
                       !.email = IF p.inn /\ info \in Emails THEN info
                                 ELSE @,
                       !.phone = IF p.inn /\ info # "none" THEN "phone"
                                 ELSE @,
                       !.address = IF p.inn /\ info # "none" THEN "address"
                                   ELSE @,
                       !.lookups = IF p.inn THEN @ + 1 ELSE @]]
  /\ fc' = [fc EXCEPT ![r] = NextRow(@, IdleRun)]
  /\ UNCHANGED <<tenders, clients, teasers, payments, dl, an, nt, cl, wh,
                 response, feedVars, loser_clients, ex, cc, settings, call>>

PendingClient(p) ==
  /\ ~p.client_created
  /\ p.contacts_fetched
  /\ p.email # "null"
  /\ p.result = "LOSER"

\* process_pending_clients lines 541-553, started by request r
process_pending_clients(r) ==
  /\ cc[r].pc = "idle"
  /\ LET b == Limit(SelectSeq(ParticipantIds,
                       LAMBDA i : PendingClient(participants[i])),
                    ClientsLimit)
     IN /\ b # <<>>
        /\ cc' = [cc EXCEPT ![r] = [pc |-> "run", batch |-> b, idx |-> 1]]
  /\ UNCHANGED <<tenders, clients, teasers, payments, dl, an, nt, cl, wh,
                 response, feedVars, participants, loser_clients, ex, fc,
                 settings, call>>

\* a tender title as _extract_keywords_from_tender reads it: how many of the
\* category keywords it contains, and its words of four letters or more,
\* each one of the filtered stop words or not; the words are read only when
\* the title holds no category keyword
TitleWords == {"word", "stop"}
Titles ==
  [categories : 1..MaxCategories, words : {<<>>}]
  \cup [categories : {0},
        words : UNION { [1..n -> TitleWords] : n \in 0..MaxTitleWords }]

\* the title of the lead-generation fixture: one category keyword
PlainTitle == [categories |-> 1, words |-> <<>>]

\* the keywords kept without the limit of five
extract_keywords_unlimited(title) ==
  IF title.categories > 0
  THEN [k \in 1..title.categories |-> "category"]
  ELSE SelectSeq(title.words, LAMBDA w : w # "stop")

\* _extract_keywords_from_tender lines 345-374
extract_keywords_from_tender(title) ==
  LET found_keywords ==
        IF title.categories > 0
        THEN [k \in 1..title.categories |-> "category"]
        ELSE SelectSeq(Limit(title.words, MaxKeywords),
                       LAMBDA w : w # "stop")
  IN Limit(found_keywords, MaxKeywords)

\* Client(...) of create_client_from_loser lines 410-422
NewClient(p, title) ==
  LET keywords == extract_keywords_from_tender(title)
  IN [email |-> p.email, is_active |-> TRUE,
      keywords |-> IF keywords = <<>> THEN <<"fallback">> ELSE keywords,
      source |-> "loser", source_inn |-> p.inn,
      source_tender_id |-> p.tender_id]

\* a client that subscribed by itself
ManualClient(e) ==
  [email |-> e, is_active |-> TRUE, keywords |-> <<"word">>,
   source |-> "manual", source_inn |-> FALSE, source_tender_id |-> 0]

\* the emails of the clients table
client_emails == { loser_clients[k].email : k \in DOMAIN loser_clients }

\* create_client_from_loser lines 390-398, up to the answer of
\* select(Client).where(Client.email == participant.email)
select_existing_client(r) ==
  /\ cc[r].pc = "run"
  /\ LET p == participants[cc[r].batch[cc[r].idx]]
     IN cc' = [cc EXCEPT ![r] =
                 IF p.email = "null" THEN NextRow(@, IdleRun)
                 ELSE [@ EXCEPT !.pc = IF p.email \in client_emails
                                       THEN "existing" ELSE "absent"]]
  /\ UNCHANGED <<tenders, clients, teasers, payments, dl, an, nt, cl, wh,
                 response, feedVars, participants, loser_clients, ex, fc,
                 settings, call>>

\* create_client_from_loser lines 398-429, from the answer of the select to
\* the commit.  clients.email is unique (models/client.py line 29): the
\* commit of a second row with the email raises IntegrityError and rolls
\* back, and the handler of process_pending_clients lines 567-568 logs it
create_client_from_loser(r, title) ==
  /\ cc[r].pc \in {"existing", "absent"}
  /\ LET i == cc[r].batch[cc[r].idx]
         p == participants[i]
         next == NextRow([cc[r] EXCEPT !.pc = "run"], IdleRun)
     IN \/ /\ cc[r].pc = "existing"
           /\ participants' = [participants EXCEPT ![i].client_created = TRUE]
           /\ loser_clients' = loser_clients
           /\ cc' = [cc EXCEPT ![r] = next]
        \/ /\ cc[r].pc = "absent"
           /\ p.email \notin client_emails
           /\ participants' = [participants EXCEPT ![i].client_created = TRUE]
           /\ loser_clients' = Append(loser_clients, NewClient(p, title))
           /\ cc' = [cc EXCEPT ![r] = next]
        \/ /\ cc[r].pc = "absent"
           /\ p.email \in client_emails
           /\ cc' = [cc EXCEPT ![r] = AfterError([@ EXCEPT !.pc = "run"],
                                               IdleRun)]
           /\ UNCHANGED <<participants, loser_clients>>
  /\ UNCHANGED <<tenders, clients, teasers, payments, dl, an, nt, cl, wh,
                 response, feedVars, ex, fc, settings, call>>

\* ----------------------------------------------------------------- crash
\* the application stops: every open session is rolled back and closed
process_shutdown ==
  /\ \/ dl.pc # "idle" \/ an.pc # "idle" \/ cl.pc # "idle"
     \/ \E i \in Instances : nt[i].pc # "idle"
     \/ wh.pc # "idle" \/ sc.pc # "idle"
     \/ ex.pc # "idle"
     \/ \E r \in Requests : fc[r].pc # "idle" \/ cc[r].pc # "idle"
  /\ dl' = IdleDl /\ an' = IdleAn /\ cl' = IdleCl
  /\ nt' = [i \in Instances |-> IdleNt]
  /\ wh' = IdleWh /\ sc' = IdleSc
  /\ ex' = IdleRun
  /\ fc' = [r \in Requests |-> IdleRun]
  /\ cc' = [r \in Requests |-> IdleRun]
  /\ response' = "none"
  /\ UNCHANGED <<tenders, clients, teasers, payments, created, rss,
                 participants, loser_clients, settings, call>>

\* ------------------------------------------------------------------- spec
ClientRows == [is_active : BOOLEAN, keywords : SUBSET Words]

\* no function is being evaluated apart from the runs
NoCall == [fn |-> "none"]

RunsIdle ==
  /\ dl = IdleDl /\ an = IdleAn /\ cl = IdleCl /\ wh = IdleWh
  /\ nt = [i \in Instances |-> IdleNt]
  /\ sc = IdleSc /\ ex = IdleRun
  /\ fc = [r \in Requests |-> IdleRun]
  /\ cc = [r \in Requests |-> IdleRun]
  /\ response = "none"

\* every run idle
Idle == RunsIdle /\ call = NoCall

\* the defaults of config.py lines 85 and 89
DefaultSettings == [dadata_api_key |-> FALSE, leadgen_enabled |-> TRUE]

\* the pipeline starts where an ingest run has stored every tender as NEW
Init ==
  /\ tenders = [t \in Tenders |-> NewTender]
  /\ created = [i \in 1..NumTenders |-> i]
  /\ rss = [feed |-> <<>>, ingested |-> FALSE]
  /\ participants = <<>>
  /\ loser_clients = <<>>
  /\ settings = DefaultSettings
  /\ Idle
  /\ clients \in [Clients -> ClientRows]
  /\ teasers = [t \in Tenders |-> [c \in Clients |-> <<>>]]
  /\ payments = [t \in Tenders |-> [c \in Clients |-> NoPayment]]

\* what the pipeline specification feeds its steps: a site that answers
\* every page URL alike, documents with text, a model that answers
SitePages == UniformOutcomes(MaxAlternatives + 2)

Next ==
  \/ process_new_tenders
  \/ \E out \in SitePages : process_tender(out, "text")
  \/ download_documents_job_finish
  \/ analyze_tenders_job
  \/ \E reply \in {OkReply, Uncalled} : analyze_tender(reply)
  \/ process_analyzed_tenders(1)
  \/ send_teaser_notifications(1)
  \/ \E mail \in {"id", "none"} : send_teaser_email(1, mail)
  \/ commit_notification(1)
  \/ mark_notified(1)
  \/ \E old \in 0..NumTenders : cleanup_stale_data_job(old)
  \/ cleanup_commit
  \/ \E t \in Tenders, c \in Clients : create_payment(t, c)
  \/ \E ev \in WebhookEvents, st \in PayloadStatuses, t \in Tenders, c \in Clients :
       yookassa_webhook(ev, st, t, c)
  \/ \E ai \in {"ok", "raise"} : deep_analysis_step(ai)
  \/ \E out \in {"id", "none", "raise"} : send_report_email(out)
  \/ mark_sold
  \/ webhook_answered
  \/ process_shutdown

Spec == Init /\ [][Next]_vars

\* -------------------------------------------------- lifecycle properties
\* C1: under every interleaving of the download, analyze, notify and cleanup
\* runs and the webhook deliveries, no step changes the stored status of a
\* tender to an earlier state of NEW < DOWNLOADED < ANALYZED < NOTIFIED < SOLD
C1_StatusNeverMovesBack ==
  [][\A t \in Tenders :
       Rank(tenders'[t].status) >= Rank(tenders[t].status)]_vars

\* C2: in every reachable state a (tender, client) pair has at most one
\* teaser notification row, however often the notify job runs and also when
\* it runs again on a tender that an interrupted run left ANALYZED
C2_AtMostOneTeaser ==
  \A t \in Tenders, c \in Clients : Len(teasers[t][c]) <= 1

\* a notify run is about to handle a tender that is still ANALYZED although
\* an earlier, interrupted run committed the teaser row of a matching client
C2_RerunOnNotifiedPair ==
  /\ nt[1].pc = "tender"
  /\ LET t == nt[1].batch[nt[1].idx]
     IN /\ tenders[t].status = "ANALYZED"
        /\ \E c \in Clients : matches_tender(c, t) /\ Len(teasers[t][c]) = 1

\* C3: once report_sent is true for a payment, a payment.succeeded delivery
\* for it starts no deep audit and no report email
C3_NoAuditAfterReportSent ==
  wh.pc \in {"audit", "send"} => ~payments[wh.t][wh.c].report_sent

\* C8: every change of a stored status moves it to the immediate successor
\* in NEW, DOWNLOADED, ANALYZED, NOTIFIED, SOLD
C8_ImmediateSuccessor ==
  [][\A t \in Tenders :
       tenders'[t].status # tenders[t].status =>
         Rank(tenders'[t].status) = Rank(tenders[t].status) + 1]_vars

\* C10: every webhook delivery with a parseable body is answered with a
\* success acknowledgment; no error response reaches the gateway
C10_WebhookAcknowledged ==
  wh.pc = "done" => response \in {"ok", "error"}

C15_CleanupFrame ==
  [][/\ \A old \in 0..NumTenders :
          cleanup_stale_data_job(old) =>
            /\ tenders' = tenders
            /\ cl'.batch =
                 {t \in Tenders :
                    /\ tenders[t].status \in {"ANALYZED", "NOTIFIED"}
                    /\ \E k \in 1..old : k <= Len(created) /\ created[k] = t
                    /\ tenders[t].raw_text # "null"}
     /\ cleanup_commit =>
          \A t \in Tenders :
            IF t \in cl.batch
            THEN /\ tenders'[t].raw_text = "null"
                 /\ tenders'[t].deep_analysis = "null"
                 /\ tenders'[t].status = tenders[t].status
                 /\ tenders'[t].teaser = tenders[t].teaser
            ELSE tenders'[t] = tenders[t]]_vars

\* C16 as stated: once the payment-success handler has completed and the
\* tender is SOLD, raw text and deep analysis are null, and the status and
\* the teaser fields (risk score, margin, description) are kept
C16_HeavyFieldsNullAfterSale ==
  [][(mark_sold /\ tenders'[wh.t].status = "SOLD") =>
       /\ tenders'[wh.t].raw_text = "null"
       /\ tenders'[wh.t].deep_analysis = "null"
       /\ tenders'[wh.t].teaser = tenders[wh.t].teaser]_vars

\* C16 as the code has it: once the handler has completed and the tender is
\* SOLD, raw text is null and the teaser fields are kept; the deep analysis
\* is not cleared: the last step of the handler leaves it as it is
C16_RawTextNullAfterSale ==
  [][(mark_sold /\ tenders'[wh.t].status = "SOLD") =>
       /\ tenders'[wh.t].raw_text = "null"
       /\ tenders'[wh.t].deep_analysis = tenders[wh.t].deep_analysis
       /\ tenders'[wh.t].teaser = tenders[wh.t].teaser]_vars

\* the handler has answered after a sale: the tender is SOLD without raw
\* text, with the deep audit and the teaser of its analysis
C16_SoldWithAudit ==
  /\ wh.pc = "done"
  /\ response = "ok"
  /\ \E t \in Tenders, c \in Clients :
       /\ payments[t][c].report_sent
       /\ tenders[t].status = "SOLD"
       /\ tenders[t].raw_text = "null"
       /\ tenders[t].deep_analysis = "audit"
       /\ tenders[t].teaser = analyze_teaser(OkReply)

\* ------------------------------------------------------------- liveness
\* the three pipeline jobs, each with every outcome of its calls
DownloadJob ==
  \/ process_new_tenders
  \/ \E out \in SitePages, text \in {"empty", "text"} : process_tender(out, text)
  \/ download_documents_job_finish

AnalyzeJob ==
  \/ analyze_tenders_job
  \/ \E reply \in {OkReply, Raises, Uncalled} : analyze_tender(reply)

NotifyJob ==
  \/ process_analyzed_tenders(1)
  \/ send_teaser_notifications(1)
  \/ \E mail \in {"id", "none"} : send_teaser_email(1, mail)
  \/ commit_notification(1)
  \/ mark_notified(1)

Payments ==
  \/ \E t \in Tenders, c \in Clients : create_payment(t, c)
  \/ \E ev \in WebhookEvents, st \in PayloadStatuses, t \in Tenders, c \in Clients :
       yookassa_webhook(ev, st, t, c)
  \/ \E ai \in {"ok", "raise"} : deep_analysis_step(ai)
  \/ \E out \in {"id", "none", "raise"} : send_report_email(out)
  \/ mark_sold
  \/ webhook_answered

\* the cleanup job writes no status and selects no tender before ANALYZED:
\* it is left out of the liveness check
FairNext == DownloadJob \/ AnalyzeJob \/ NotifyJob \/ Payments

\* the interval triggers of setup_scheduler start every job again and again,
\* and a started run goes on as long as the process runs
FairSpec ==
  /\ Init
  /\ [][FairNext]_vars
  /\ WF_vars(DownloadJob)
  /\ WF_vars(AnalyzeJob)
  /\ WF_vars(NotifyJob)

NotifyJobOf(i) ==
  \/ process_analyzed_tenders(i)
  \/ send_teaser_notifications(i)
  \/ \E mail \in {"id", "none"} : send_teaser_email(i, mail)
  \/ commit_notification(i)
  \/ mark_notified(i)

\* two application instances on one database: the scheduler of each starts
\* its notify job on its own
OverlapNext ==
  \/ DownloadJob
  \/ AnalyzeJob
  \/ \E i \in Instances : NotifyJobOf(i)

SpecOverlap == Init /\ [][OverlapNext]_vars

SentRows(t, c) == {k \in 1..Len(teasers[t][c]) : teasers[t][c][k] = "sent"}

\* C11: when two runs of the notify job overlap on the same ANALYZED tender,
\* a (tender, client) pair gets at most one teaser notification row and at
\* most one teaser email
C11_OverlappingRunsOneTeaser ==
  \A t \in Tenders, c \in Clients :
    /\ Len(teasers[t][c]) <= 1
    /\ Cardinality(SentRows(t, c)) <= 1

\* ------------------------------------------------------- analyze, alone
\* the download and analyze jobs, with every answer of the model
AnalyzeNext ==
  \/ DownloadJob
  \/ analyze_tenders_job
  \/ \E reply \in Replies : analyze_tender(reply)
  \/ process_shutdown

SpecAnalyze == Init /\ [][AnalyzeNext]_vars

DownloadNext ==
  \/ process_new_tenders
  \/ \E out \in PageOutcomes(MaxAlternatives + 2), text \in {"empty", "text"} :
       process_tender(out, text)
  \/ download_documents_job_finish
  \/ AnalyzeJob
  \/ process_shutdown

SpecDownload == Init /\ [][DownloadNext]_vars

AllPagesFail(out) == \A i \in 1..Len(out) : out[i] # "ok"

\* C9: when the fetch of every page URL of a NEW tender fails (documents
\* view, the alternatives, the original URL), process_tender leaves the
\* tender DOWNLOADED with empty raw text and returns False, and the batch
\* goes on: no exception leaves the job
C9_UnreachablePage ==
  [][\A out \in PageOutcomes(MaxAlternatives + 2), text \in {"empty", "text"} :
       (process_tender(out, text) /\ AllPagesFail(out)) =>
          LET t == dl.batch[dl.idx]
          IN /\ tenders[t].status = "NEW"
             /\ tenders'[t].status = "DOWNLOADED"
             /\ tenders'[t].raw_text = "empty"
             /\ dl'.tried = PageUrls(t)
             /\ dl'.ret = "false"
             /\ dl'.pc = "run"]_vars

\* process_tender has returned False after it tried every URL of a tender
C9_EveryUrlTried ==
  /\ dl.pc = "run"
  /\ dl.idx > 1
  /\ dl.ret = "false"
  /\ LET t == dl.batch[dl.idx - 1]
     IN /\ dl.tried = PageUrls(t)
        /\ Len(dl.tried) = MaxAlternatives + 2
        /\ tenders[t].status = "DOWNLOADED"
        /\ tenders[t].raw_text = "empty"

\* --------------------------------------------------------- ingest, alone
AbsentTender == [status |-> "ABSENT", raw_text |-> "null", teaser |-> NoTeaser,
                 deep_analysis |-> "null"]

\* an empty database; the scrape job and the download job run
InitIngest ==
  /\ tenders = [t \in Tenders |-> AbsentTender]
  /\ created = <<>>
  /\ rss = [feed |-> <<>>, ingested |-> FALSE]
  /\ clients = [c \in Clients |-> [is_active |-> TRUE, keywords |-> Words]]
  /\ teasers = [t \in Tenders |-> [c \in Clients |-> <<>>]]
  /\ payments = [t \in Tenders |-> [c \in Clients |-> NoPayment]]
  /\ participants = <<>>
  /\ loser_clients = <<>>
  /\ settings = DefaultSettings
  /\ Idle

IngestNext ==
  \/ \E f \in Feeds : feed_changes(f)
  \/ process_feed
  \/ process_entry
  \/ process_feed_commit
  \/ scrape_rss_job_finish
  \/ process_new_tenders
  \/ \E out \in SitePages : process_tender(out, "text")
  \/ download_documents_job_finish
  \/ process_shutdown

SpecIngest == InitIngest /\ [][IngestNext]_vars

Stored == {t \in Tenders : tenders[t].status # "ABSENT"}

AllStored(entries) ==
  \A i \in 1..Len(entries) : entries[i].external_id \in Stored

\* C4: a scrape run never changes a field of a stored tender; a run over
\* entries whose external ids are all stored inserts no row and returns 0;
\* a run over the feed that the run before it ingested leaves the set of
\* tender rows as that run left it
C4_IdempotentIngestion ==
  [][(sc.pc = "run" /\ sc'.pc \in {"run", "done"} /\ sc' # sc) =>
       /\ \A t \in Stored : tenders'[t] = tenders[t]
       /\ (sc'.pc = "done" /\ AllStored(sc.entries)) =>
            /\ Stored' = Stored
            /\ created' = created
            /\ sc'.ret = 0
            /\ ~sc'.raised
       /\ (sc'.pc = "done" /\ sc.again) => Stored' = Stored]_vars

\* the run before this one ingested the same feed; this run has met an
\* entry that passes the filter and whose tender is stored and DOWNLOADED,
\* and has returned 0
C4_SecondRunOfSameFeed ==
  /\ sc.pc = "done"
  /\ sc.again
  /\ sc.ret = 0
  /\ ~sc.raised
  /\ AllStored(sc.entries)
  /\ \E i \in 1..Len(sc.entries) :
       /\ ~should_skip(sc.entries[i].title, sc.entries[i].price)
       /\ tenders[sc.entries[i].external_id].status = "DOWNLOADED"

\* C12: a run over a batch in which a not yet stored external id occurs
\* twice skips the duplicate: the run does not fail, and afterwards every
\* entry of the batch that passes the filter has its tender row
C12_DuplicateSkipped ==
  [][(sc.pc = "run" /\ sc'.pc = "done") =>
       /\ ~sc'.raised
       /\ \A i \in 1..Len(sc.entries) :
            ~should_skip(sc.entries[i].title, sc.entries[i].price)
               => sc.entries[i].external_id \in Stored']_vars

\* ------------------------------------------------ lead generation, alone
NotifiedTender == [status |-> "NOTIFIED", raw_text |-> "text",
                   teaser |-> analyze_teaser(OkReply),
                   deep_analysis |-> "null"]
SoldTender == [status |-> "SOLD", raw_text |-> "null",
               teaser |-> analyze_teaser(OkReply),
               deep_analysis |-> "audit"]

\* the pipeline has brought the oldest tender to NOTIFIED or SOLD, the
\* others are NEW; any configuration, with or without a client
InitLeadgen ==
  /\ tenders \in { [t \in Tenders |-> IF t = 1 THEN r ELSE NewTender] :
                     r \in {NotifiedTender, SoldTender} }
  /\ created = [i \in 1..NumTenders |-> i]
  /\ rss = [feed |-> <<>>, ingested |-> FALSE]
  /\ clients = [c \in Clients |-> [is_active |-> TRUE, keywords |-> Words]]
  /\ teasers = [t \in Tenders |-> [c \in Clients |-> <<>>]]
  /\ payments = [t \in Tenders |-> [c \in Clients |-> NoPayment]]
  /\ participants = <<>>
  /\ loser_clients \in {<<>>} \cup { <<ManualClient(e)>> : e \in Emails }
  /\ settings \in [dadata_api_key : BOOLEAN, leadgen_enabled : BOOLEAN]
  /\ Idle

LeadgenNext ==
  \/ \E lo \in 0..NumTenders, hi \in 0..NumTenders :
       process_completed_tenders(lo, hi)
  \/ \E page \in Pages : extract_participants(page)
  \/ \E r \in Requests : process_pending_contacts(r)
  \/ \E r \in Requests, info \in {"none", "noemail"} \cup Emails :
       fetch_contacts_for_participant(r, info)
  \/ \E r \in Requests : process_pending_clients(r)
  \/ \E r \in Requests : select_existing_client(r)
  \/ \E r \in Requests : create_client_from_loser(r, PlainTitle)
  \/ process_shutdown

SpecLeadgen == InitLeadgen /\ [][LeadgenNext]_vars

\* C5: in every reachable state no two participant rows have the same
\* tender and the same company name
C5_UniqueParticipant ==
  \A i, j \in 1..Len(participants) :
    (/\ participants[i].tender_id = participants[j].tender_id
     /\ participants[i].company_name = participants[j].company_name) => i = j

\* no run of the fetch-contacts job or of the create-clients job is under
\* way, and a run of either would change no row
Quiescent ==
  /\ \A r \in Requests : fc[r].pc = "idle"
  /\ \A r \in Requests : cc[r].pc = "idle"
  /\ \A r \in Requests : ~ENABLED process_pending_contacts(r)
  /\ \A r \in Requests : ~ENABLED process_pending_clients(r)

RowsOf(rows) == {rows[i] : i \in 1..Len(rows)}

EmailHandled(p) ==
  p.email # "null" => (p.client_created \/ p.email \in client_emails)

C17_LookedUpAtMostOnce ==
  [][\A r \in Requests, info \in {"none", "noemail"} \cup Emails :
       fetch_contacts_for_participant(r, info) =>
         LET i == fc[r].batch[fc[r].idx]
         IN /\ participants'[i].contacts_fetched
            /\ ~participants[i].inn =>
                 participants'[i].email = participants[i].email
            /\ participants'[i].lookups <= 1]_vars

\* ------------------------------------------------- client conversion, alone
\* a loser of tender t whose contacts were fetched: email e, or none
FetchedLoser(t, e) ==
  [NewParticipant(t, [company_name |-> "a", inn |-> TRUE,
                      is_winner |-> FALSE])
     EXCEPT !.contacts_fetched = TRUE, !.email = e, !.lookups = 1,
            !.phone = IF e = "null" THEN "null" ELSE "phone",
            !.address = IF e = "null" THEN "null" ELSE "address"]

\* every tender is completed and has one loser with fetched contacts; the
\* clients table is empty or holds a client that subscribed by itself
InitClients ==
  /\ tenders = [t \in Tenders |-> NotifiedTender]
  /\ created = [i \in 1..NumTenders |-> i]
  /\ rss = [feed |-> <<>>, ingested |-> FALSE]
  /\ clients = [c \in Clients |-> [is_active |-> TRUE, keywords |-> Words]]
  /\ teasers = [t \in Tenders |-> [c \in Clients |-> <<>>]]
  /\ payments = [t \in Tenders |-> [c \in Clients |-> NoPayment]]
  /\ participants \in
       { [t \in 1..NumTenders |-> FetchedLoser(t, e[t])] :
           e \in [1..NumTenders -> Emails \cup {"null"}] }
  /\ loser_clients \in {<<>>} \cup { <<ManualClient(e)>> : e \in Emails }
  /\ settings = DefaultSettings
  /\ Idle

ClientsNext ==
  \/ \E r \in Requests : process_pending_clients(r)
  \/ \E r \in Requests : select_existing_client(r)
  \/ \E r \in Requests, title \in Titles :
       create_client_from_loser(r, title)
  \/ process_shutdown

SpecClients == InitClients /\ [][ClientsNext]_vars

process_new_tenders_except ==
  /\ dl.pc = "run"
  /\ dl.idx <= Len(dl.batch)
  /\ dl' = [dl EXCEPT !.idx = @ + 1]
  /\ UNCHANGED <<tenders, clients, teasers, payments, an, nt, cl, wh,
                 response, feedVars, leadVars>>

\* analyze_tenders_job lines 112-113
analyze_tenders_job_except ==
  /\ an.pc = "run"
  /\ an' = AfterError(an, IdleAn)
  /\ UNCHANGED <<tenders, clients, teasers, payments, dl, nt, cl, wh,
                 response, feedVars, leadVars>>

\* process_analyzed_tenders lines 170-171: the exception left
\* send_teaser_notifications, or the commit of the status raised; the
\* notification rows committed before it stay
process_analyzed_tenders_except(i) ==
  /\ nt[i].pc \in {"tender", "client", "commit"}
  /\ nt' = [nt EXCEPT ![i] =
              AfterError([@ EXCEPT !.pc = "tender", !.matching = <<>>,
                                   !.row = "none"], IdleNt)]
  /\ UNCHANGED <<tenders, clients, teasers, payments, dl, an, cl, wh,
                 response, feedVars, leadVars>>

\* process_completed_tenders lines 488-489
process_completed_tenders_except ==
  /\ ex.pc = "run"
  /\ ex' = AfterError(ex, IdleRun)
  /\ UNCHANGED <<tenders, clients, teasers, payments, dl, an, nt, cl, wh,
                 response, feedVars, participants, loser_clients, fc, cc,
                 settings, call>>

\* process_pending_contacts lines 526-527
process_pending_contacts_except(r) ==
  /\ fc[r].pc = "run"
  /\ fc' = [fc EXCEPT ![r] = AfterError(@, IdleRun)]
  /\ UNCHANGED <<tenders, clients, teasers, payments, dl, an, nt, cl, wh,
                 response, feedVars, participants, loser_clients, ex, cc,
                 settings, call>>

\* process_pending_clients lines 567-568
process_pending_clients_except(r) ==
  /\ cc[r].pc \in {"run", "existing", "absent"}
  /\ cc' = [cc EXCEPT ![r] = AfterError([@ EXCEPT !.pc = "run"], IdleRun)]
  /\ UNCHANGED <<tenders, clients, teasers, payments, dl, an, nt, cl, wh,
                 response, feedVars, participants, loser_clients, ex, fc,
                 settings, call>>

\* the six batches on a configured installation, every tender NEW at first
InitBatches ==
  /\ tenders = [t \in Tenders |-> NewTender]
  /\ created = [i \in 1..NumTenders |-> i]
  /\ rss = [feed |-> <<>>, ingested |-> FALSE]
  /\ participants = <<>>
  /\ loser_clients = <<>>
  /\ settings = [dadata_api_key |-> TRUE, leadgen_enabled |-> TRUE]
  /\ Idle
  /\ clients = [c \in Clients |-> [is_active |-> TRUE, keywords |-> Words]]
  /\ teasers = [t \in Tenders |-> [c \in Clients |-> <<>>]]
  /\ payments = [t \in Tenders |-> [c \in Clients |-> NoPayment]]

\* a results page with one loser that has an INN
LoserPage ==
  [table |-> <<[company_name |-> "a", inn |-> TRUE, is_winner |-> FALSE]>>,
   blocks |-> <<>>]

BatchesNext ==
  \/ process_new_tenders
  \/ \E out \in SitePages : process_tender(out, "text")
  \/ process_new_tenders_except
  \/ download_documents_job_finish
  \/ analyze_tenders_job
  \/ \E reply \in {OkReply, Uncalled} : analyze_tender(reply)
  \/ analyze_tenders_job_except
  \/ process_analyzed_tenders(1)
  \/ send_teaser_notifications(1)
  \/ send_teaser_email(1, "id")
  \/ commit_notification(1)
  \/ mark_notified(1)
  \/ process_analyzed_tenders_except(1)
  \/ process_completed_tenders(0, NumTenders)
  \/ \E page \in {NoPage, LoserPage} : extract_participants(page)
  \/ process_completed_tenders_except
  \/ \E r \in Requests : process_pending_contacts(r)
  \/ \E r \in Requests : fetch_contacts_for_participant(r, "e1")
  \/ \E r \in Requests : process_pending_contacts_except(r)
  \/ \E r \in Requests : process_pending_clients(r)
  \/ \E r \in Requests : select_existing_client(r)
  \/ \E r \in Requests : create_client_from_loser(r, PlainTitle)
  \/ \E r \in Requests : process_pending_clients_except(r)

SpecBatches == InitBatches /\ [][BatchesNext]_vars

\* the run is at the row after the one that raised, or over when that row
\* was the last of the batch
GoesOn(run, after, start, idle) ==
  IF run.idx < Len(run.batch)
  THEN after.pc = start /\ after.batch = run.batch /\ after.idx = run.idx + 1
  ELSE after = idle

DownloadedTender == [NewTender EXCEPT !.status = "DOWNLOADED",
                                      !.raw_text = "text"]
AnalyzedTender == [DownloadedTender EXCEPT !.status = "ANALYZED",
                                           !.teaser = analyze_teaser(OkReply)]
TenderOf(st) ==
  CASE st = "NEW" -> NewTender
    [] st = "DOWNLOADED" -> DownloadedTender
    [] st = "ANALYZED" -> AnalyzedTender

\* a table of up to TableSize tenders, oldest first; the status of a row
\* goes by its position modulo three, so that rows of one status lie between
\* rows of the others; no client is active
InitSelect ==
  /\ \E n \in 0..TableSize, pattern \in [0..2 -> {"NEW", "DOWNLOADED", "ANALYZED"}] :
       /\ tenders = [t \in 1..n |-> TenderOf(pattern[t % 3])]
       /\ created = [i \in 1..n |-> i]
       /\ teasers = [t \in 1..n |-> [c \in Clients |-> <<>>]]
       /\ payments = [t \in 1..n |-> [c \in Clients |-> NoPayment]]
  /\ rss = [feed |-> <<>>, ingested |-> FALSE]
  /\ participants = <<>>
  /\ loser_clients = <<>>
  /\ settings = DefaultSettings
  /\ Idle
  /\ clients = [c \in Clients |-> [is_active |-> FALSE, keywords |-> Words]]

\* the selections of the three jobs on such a table; the application may
\* stop after any of them
SelectNext ==
  \/ process_new_tenders
  \/ analyze_tenders_job
  \/ process_analyzed_tenders(1)
  \/ process_shutdown

SpecSelect == InitSelect /\ [][SelectNext]_vars

\* the rows of batch b: at most n, each of status st, and every row of status
\* st that is older than a row of b is in b as well
OldestOfStatus(b, st, n) ==
  /\ Len(b) <= n
  /\ \A k \in 1..Len(b) : tenders[b[k]].status = st
  /\ \A j, k \in 1..Len(b) : b[j] = b[k] => j = k
  /\ \A i, j \in 1..Len(created) :
       (/\ i < j
        /\ tenders[created[i]].status = st
        /\ \E k \in 1..Len(b) : b[k] = created[j])
         => \E k \in 1..Len(b) : b[k] = created[i]

\* C20: a run of the download job takes at most 20 tenders, a run of the
\* analyze job at most 10 and a run of the notify job at most 10; each
\* tender of the batch is NEW, DOWNLOADED or ANALYZED when it is selected,
\* and no older tender of that status is left out of the batch.
C20_OldestWithinLimit ==
  [][/\ process_new_tenders => OldestOfStatus(dl'.batch, "NEW", 20)
     /\ analyze_tenders_job => OldestOfStatus(an'.batch, "DOWNLOADED", 10)
     /\ process_analyzed_tenders(1) =>
          OldestOfStatus(nt'[1].batch, "ANALYZED", 10)]_vars

\* every limit cuts its batch: the three runs hold 20, 10 and 10 tenders
\* and a tender of each status is left for a later run
C20_LimitsCut ==
  /\ Len(dl.batch) = 20 /\ Len(an.batch) = 10 /\ Len(nt[1].batch) = 10
  /\ \E t \in DOMAIN tenders :
       tenders[t].status = "NEW" /\ \A k \in 1..20 : dl.batch[k] # t
  /\ \E t \in DOMAIN tenders :
       tenders[t].status = "DOWNLOADED" /\ \A k \in 1..10 : an.batch[k] # t
  /\ \E t \in DOMAIN tenders :
       tenders[t].status = "ANALYZED" /\ \A k \in 1..10 : nt[1].batch[k] # t

\* ---------------------------------------------------------- chunk splitter
\* a text as _split_into_chunks reads it: its length, the positions where
\* "\n\n" starts and the positions where ". " starts (0-based)
SplitLengths ==
  {0, 1, ChunkSize - 1, ChunkSize, ChunkSize + 1,
   ChunkSize + Overlap - 1, ChunkSize + Overlap, ChunkSize + Overlap + 1,
   2 * ChunkSize - Overlap - 1, 2 * ChunkSize - Overlap,
   2 * ChunkSize - Overlap + 1, 2 * ChunkSize, 3 * ChunkSize}
BreakPositions ==
  {ChunkSize - ParagraphWindow - 1, ChunkSize - ParagraphWindow,
   ChunkSize - SentenceWindow - 1, ChunkSize - SentenceWindow,
   ChunkSize - 3, ChunkSize - 2, ChunkSize - 1, ChunkSize,
   2 * ChunkSize - ParagraphWindow - Overlap,
   2 * ChunkSize - ParagraphWindow,
   2 * ChunkSize - Overlap - 2, 2 * ChunkSize - 2}
Texts ==
  { x \in [len : SplitLengths,
           paragraphs : {P \in SUBSET BreakPositions : Cardinality(P) <= MaxBreaks},
           sentences : {S \in SUBSET BreakPositions : Cardinality(S) <= 1}] :
      /\ \A p \in x.paragraphs \cup x.sentences : p + 2 <= x.len
      /\ \A p \in x.paragraphs, q \in x.sentences :
           p - q >= 2 \/ q - p >= 2 }

\* str.rfind(sub, lo, hi) for a two-character sub that starts at the
\* positions S: the last one that lies within [lo, hi), or -1
rfind(S, lo, hi) ==
  LET within == {p \in S : lo <= p /\ p + 2 <= hi}
  IN IF within = {} THEN 0 - 1
     ELSE CHOOSE p \in within : \A q \in within : q <= p

\* a splitter that starts the next chunk after a gap
next_start_gap(end) == end + 1

\* line 222: start = end - overlap
next_start(end) == end - Overlap

\* lines 210-219: where the chunk that starts at `start` ends
chunk_end(text, start) ==
  LET end == start + ChunkSize
      para == rfind(text.paragraphs, start + ChunkSize - ParagraphWindow, end)
      break_pos == IF para # 0 - 1 THEN para
                   ELSE rfind(text.sentences,
                              start + ChunkSize - SentenceWindow, end)
  IN IF end < text.len /\ break_pos # 0 - 1 THEN break_pos + 1 ELSE end

\* text[start:end] as the pair of its first position and the position
\* after its last
Slice(text, start, end) ==
  <<start, IF end > text.len THEN text.len ELSE end>>

\* what a function of the services leaves alone
storeVars == <<tenders, clients, teasers, payments, dl, an, nt, cl, wh,
               response, feedVars, participants, loser_clients, ex, fc, cc,
               settings>>

\* a function of the services called on one of `inputs`, the database as
\* the pipeline finds it at its start
InitCall(inputs) ==
  /\ tenders = [t \in Tenders |-> NewTender]
  /\ created = [i \in 1..NumTenders |-> i]
  /\ rss = [feed |-> <<>>, ingested |-> FALSE]
  /\ participants = <<>>
  /\ loser_clients = <<>>
  /\ settings = DefaultSettings
  /\ RunsIdle
  /\ clients = [c \in Clients |-> [is_active |-> TRUE, keywords |-> Words]]
  /\ teasers = [t \in Tenders |-> [c \in Clients |-> <<>>]]
  /\ payments = [t \in Tenders |-> [c \in Clients |-> NoPayment]]
  /\ call \in inputs

InitSplit ==
  InitCall({ [fn |-> "split", text |-> x, start |-> 0, chunks |-> <<>>,
              returned |-> FALSE] : x \in Texts })

\* _split_into_chunks lines 204-205 and one turn of the loop of lines
\* 209-222, or the return of line 224
split_into_chunks ==
  /\ call.fn = "split"
  /\ ~call.returned
  /\ IF call.text.len <= ChunkSize
     THEN call' = [call EXCEPT !.chunks = <<Slice(call.text, 0, call.text.len)>>,
                               !.returned = TRUE]
     ELSE IF call.start < call.text.len
     THEN LET end == chunk_end(call.text, call.start)
          IN call' = [call EXCEPT
                        !.chunks = Append(@, Slice(call.text, call.start, end)),
                        !.start = next_start(end)]
     ELSE call' = [call EXCEPT !.returned = TRUE]
  /\ UNCHANGED storeVars

SpecSplit == InitSplit /\ [][split_into_chunks]_vars

\* C21: a text of at most 12000 characters comes back as one chunk equal to
\* it; the chunks of a longer text cover it without a gap: the first starts
\* at position 0, every later one starts at or before the end of the one
\* before it, and the last ends at the end of the text.
C21_ChunksCoverText ==
  (call.fn = "split" /\ call.returned) =>
    IF call.text.len <= 12000
    THEN call.chunks = << <<0, call.text.len>> >>
    ELSE /\ call.chunks # <<>>
         /\ call.chunks[1][1] = 0
         /\ \A k \in 2..Len(call.chunks) :
              call.chunks[k][1] <= call.chunks[k - 1][2]
         /\ call.chunks[Len(call.chunks)][2] = call.text.len

\* a long text split into three chunks or more, one of them cut after a
\* paragraph break and one after a sentence break
C21_CutAtBreaks ==
  /\ call.fn = "split" /\ call.returned
  /\ Len(call.chunks) >= 3
  /\ \E k \in 1..Len(call.chunks) :
       call.chunks[k][2] - 1 \in call.text.paragraphs
  /\ \E k \in 1..Len(call.chunks) :
       call.chunks[k][2] - 1 \in call.text.sentences

\* -------------------------------------------------------------- deep audit
\* the text handed to analyze_deep_audit: None, or a string of `len`
\* characters of which `lead` at its start and `trail` at its end are
\* whitespace; without breaks where a chunk could be cut
AuditLengths ==
  {0, 1, 2, MinAuditLength - 1, MinAuditLength, MinAuditLength + 1,
   MinAuditLength + 2 * MaxBlank, ChunkSize, ChunkSize + 1, 2 * ChunkSize}
AuditTexts ==
  { x \in [null : BOOLEAN, len : AuditLengths, lead : 0..MaxBlank,
           trail : 0..MaxBlank, blank : BOOLEAN] :
      /\ x.null => x.len = 0
      /\ x.lead + x.trail <= x.len
      /\ x.blank => x.lead + x.trail = x.len }
  \cup { [null |-> FALSE, len |-> n, lead |-> n, trail |-> 0, blank |-> TRUE] :
           n \in AuditLengths }

\* the test of line 329 on the length of the text as it is
too_short_untrimmed(text) == text.null \/ text.len < MinAuditLength

\* line 329: not text or len(text.strip()) < 100; strip() takes the
\* whitespace off both ends, all of it when the text is whitespace only
too_short(text) ==
  \/ text.null
  \/ text.len = 0
  \/ (IF text.blank THEN 0 ELSE text.len - text.lead - text.trail)
       < MinAuditLength

\* the chunks of a text without breaks, from `start` on
RECURSIVE chunks_from(_, _)
chunks_from(text, start) ==
  IF start >= text.len THEN <<>>
  ELSE <<Slice(text, start, chunk_end(text, start))>>
         \o chunks_from(text, next_start(chunk_end(text, start)))

\* analyze_deep_audit line 329 to line 342
analyze_deep_audit_start ==
  /\ call.fn = "audit" /\ call.pc = "start"
  /\ IF too_short(call.text)
     THEN call' = [call EXCEPT !.pc = "returned", !.result = "placeholder"]
     ELSE call' = [call EXCEPT
            !.pc = "map",
            !.chunks =
               IF call.text.len <= ChunkSize THEN 1
               ELSE Len(chunks_from([len |-> call.text.len, paragraphs |-> {},
                                     sentences |-> {}], 0))]
  /\ UNCHANGED storeVars

\* lines 345-349: one _analyze_chunk call for every chunk; a call that
\* raises yields an empty finding (lines 257-259)
analyze_chunk ==
  /\ call.fn = "audit" /\ call.pc = "map"
  /\ call' = [call EXCEPT !.chunk_calls = @ + 1,
                          !.pc = IF call.chunk_calls + 1 = call.chunks
                                 THEN "reduce" ELSE "map"]
  /\ UNCHANGED storeVars

\* lines 351-388: the findings are merged and _synthesize_findings is called
synthesize_findings ==
  /\ call.fn = "audit" /\ call.pc = "reduce"
  /\ call' = [call EXCEPT !.synthesis_calls = @ + 1, !.pc = "returned",
                          !.result = "audit"]
  /\ UNCHANGED storeVars

InitAudit ==
  InitCall({ [fn |-> "audit", text |-> x, pc |-> "start", chunks |-> 0,
              chunk_calls |-> 0, synthesis_calls |-> 0, result |-> "none"] :
               x \in AuditTexts })

AuditNext == analyze_deep_audit_start \/ analyze_chunk \/ synthesize_findings

SpecAudit == InitAudit /\ [][AuditNext]_vars

\* C22: for a text that is null, empty, or shorter than 100 characters once
\* the whitespace at its ends is taken off, analyze_deep_audit returns the
\* placeholder result and calls the model neither for a chunk nor for the
\* synthesis.
C22_ShortTextNoModelCall ==
  (/\ call.fn = "audit"
   /\ \/ call.text.null
      \/ call.text.len = 0
      \/ (IF call.text.blank THEN 0
          ELSE call.text.len - call.text.lead - call.text.trail) < 100) =>
    /\ call.chunk_calls = 0 /\ call.synthesis_calls = 0
    /\ call.pc # "start" => call.pc = "returned" /\ call.result = "placeholder"

\* a text of 100 characters or more with fewer than 100 between the
\* whitespace at its ends has come back as the placeholder
C22_TrimmedBelowThreshold ==
  /\ call.fn = "audit" /\ call.pc = "returned"
  /\ call.text.len >= 100 /\ ~call.text.blank
  /\ call.text.len - call.text.lead - call.text.trail < 100
  /\ call.result = "placeholder"

\* ------------------------------------------------------- the entry filter
\* titles and stop words as strings of characters in both cases
Chars == {"a", "b", "A", "B"}

Strings(n) == UNION { [1..k -> Chars] : k \in 0..n }

\* the stop words of the settings (config.py lines 46-49): any list of words
StopWordLists ==
  SUBSET { <<"a", "b">>, <<"B", "a">>, <<"A", "A", "b">>, <<"b", "b">> }

SkipPrices ==
  {NoPrice, Price(0), Price(MinTenderPrice - 1), Price(MinTenderPrice),
   Price(MinTenderPrice + 1), Price(10 * MinTenderPrice)}

lower_char(c) == CASE c = "A" -> "a" [] c = "B" -> "b" [] OTHER -> c

\* the title and the stop words compared as they are written
lower_none(s) == s

\* str.lower()
lower(s) == [i \in 1..Len(s) |-> lower_char(s[i])]

\* w in s
contains(s, w) ==
  \E i \in 0..(Len(s) - Len(w)) : \A k \in 1..Len(w) : s[i + k] = w[k]

\* ScraperService.__init__ line 38 and _should_skip lines 124-139
should_skip_entry(title, price, stop_words, min_price) ==
  LET title_lower == lower(title)
      lowered == { lower(w) : w \in stop_words }
  IN IF \E stop_word \in lowered : contains(title_lower, stop_word)
     THEN TRUE
     ELSE IF price.known /\ price.value < min_price THEN TRUE
     ELSE FALSE

InitSkip ==
  InitCall({ [fn |-> "skip", title |-> x, price |-> p, stop_words |-> w,
              returned |-> FALSE, result |-> FALSE] :
               x \in Strings(MaxTitleChars), p \in SkipPrices,
               w \in StopWordLists })

should_skip_call ==
  /\ call.fn = "skip" /\ ~call.returned
  /\ call' = [call EXCEPT
       !.returned = TRUE,
       !.result = should_skip_entry(call.title, call.price, call.stop_words,
                                    MinTenderPrice)]
  /\ UNCHANGED storeVars

SpecSkip == InitSkip /\ [][should_skip_call]_vars

\* a stop word occurs in the title at some position, letter by letter
\* whatever the case of the letters
OccursIgnoringCase(w, title) ==
  \E i \in 0..(Len(title) - Len(w)) :
    \A k \in 1..Len(w) : lower_char(title[i + k]) = lower_char(w[k])

\* C23: _should_skip rejects an entry whose title contains a configured stop
\* word as a case-insensitive substring, whatever its price; rejects an
\* entry whose known price is below the floor; and accepts an entry without
\* a stop word whose price is unknown or at least the floor.
C23_FilterByStopWordAndPrice ==
  (call.fn = "skip" /\ call.returned) =>
    LET hit == \E w \in call.stop_words : OccursIgnoringCase(w, call.title)
        low == call.price.known /\ call.price.value < 100000
    IN /\ hit => call.result
       /\ low => call.result
       /\ (~hit /\ ~call.price.known) => ~call.result
       /\ (~hit /\ call.price.known /\ call.price.value >= 100000)
            => ~call.result

\* a title with a stop word in another case inside a longer word, at a price
\* above the floor, has been rejected
C23_StopWordInsideWord ==
  /\ call.fn = "skip" /\ call.returned /\ call.result
  /\ call.title = <<"b", "A", "b">> /\ call.stop_words = {<<"a", "b">>}
  /\ call.price = Price(MinTenderPrice + 1)

\* ------------------------------------------------------ the report price
\* tenders.price is Numeric(15, 2) (tender.py line 55): roubles and kopecks
Decimals ==
  [known : {TRUE},
   rubles : {0, 1, MinTenderPrice, 499999, 500000, Tier2From - 1, Tier2From, Tier2From + 1,
             5000000, Tier3From - 1, Tier3From, Tier3From + 1, 50000000,
             2000000000},
   kopecks : {0, 1, 50, 99}]
  \cup {[known |-> FALSE, rubles |-> 0, kopecks |-> 0]}

\* float(tender_price) < limit with the limit itself in the lower tier
below_or_at(price, limit) ==
  price.rubles < limit \/ (price.rubles = limit /\ price.kopecks = 0)

\* lines 49-52: float(tender_price) < limit, for a limit in whole roubles; a
\* double holds an amount of two decimals of this size to within 1e-8, so
\* the amount is below the limit exactly when its roubles are
below(price, limit) == price.rubles < limit

\* PaymentService.get_price_for_tender
get_price_for_tender(tender_price) ==
  IF ~tender_price.known THEN ReportPriceTier1
  ELSE IF below(tender_price, Tier2From) THEN ReportPriceTier1
  ELSE IF below(tender_price, Tier3From) THEN ReportPriceTier2
  ELSE ReportPriceTier3

InitPrice ==
  InitCall({ [fn |-> "price", tender_price |-> p, returned |-> FALSE,
              result |-> 0] : p \in Decimals })

get_price_for_tender_call ==
  /\ call.fn = "price" /\ ~call.returned
  /\ call' = [call EXCEPT !.returned = TRUE,
                          !.result = get_price_for_tender(call.tender_price)]
  /\ UNCHANGED storeVars

SpecPrice == InitPrice /\ [][get_price_for_tender_call]_vars

C25_RowSurvivesCrashAfterSend ==
  [][\A i \in Instances :
       (nt[i].pc = "commit" /\ nt'[i].pc = "idle") =>
         teasers'[nt[i].batch[nt[i].idx]][Head(nt[i].matching)] # <<>>]_vars

\* --------------------------------------------- the same webhook, twice
\* C26: the payment.succeeded webhook of a payment, delivered again after
\* the handler has completed for it (the tender is SOLD), changes nothing:
\* the payment keeps its status and report-sent flag, the tender its
\* status, raw text and stored deep analysis.
C26_SecondDeliveryChangesNothing ==
  [][(/\ wh.status = "SOLD"
      /\ \/ \E ai \in {"ok", "raise"} : deep_analysis_step(ai)
         \/ \E out \in {"id", "none", "raise"} : send_report_email(out)
         \/ mark_sold) =>
       /\ payments'[wh.t][wh.c] = payments[wh.t][wh.c]
       /\ tenders'[wh.t].status = tenders[wh.t].status
       /\ tenders'[wh.t].raw_text = tenders[wh.t].raw_text
       /\ tenders'[wh.t].deep_analysis = tenders[wh.t].deep_analysis]_vars

\* ------------------------------------------------- sold means report sent
\* C27: in every reachable state a SOLD tender has a succeeded payment whose
\* report-sent flag is true; and the flag of a payment becomes true only in
\* a report send that returned a provider message id.
C27_SoldOnlyWithReportSent ==
  /\ [](\A t \in Tenders :
          tenders[t].status = "SOLD" =>
            \E c \in Clients : /\ payments[t][c].status = "succeeded"
                               /\ payments[t][c].report_sent)
  /\ [][\A t \in Tenders, c \in Clients :
          (~payments[t][c].report_sent /\ payments'[t][c].report_sent) =>
            /\ send_report_email("id")
            /\ wh.t = t /\ wh.c = c]_vars

\* ------------------------------------------------- one tender page fetch
\* what the attempts of one fetch meet, one more than the loop can make
FetchScripts == [1..(Retries + 2) -> FetchOutcomes]

\* a server error or a timeout is tried again, whatever the attempt
retry_unbounded(o, attempt) == o \in {"5xx", "timeout"}

\* lines 71 and 79: status_code >= 500 and attempt < retries; a timeout and
\* attempt < retries
retry(o, attempt) == o \in {"5xx", "timeout"} /\ attempt < Retries

InitFetch ==
  InitCall({ [fn |-> "fetch", outs |-> o, attempt |-> 0, slept |-> <<>>,
              returned |-> FALSE, result |-> "none"] : o \in FetchScripts })

\* DocumentService._fetch_tender_page, one turn of the loop of line 61
fetch_tender_page_attempt ==
  /\ call.fn = "fetch" /\ ~call.returned
  /\ call.attempt < Len(call.outs)
  /\ LET o == call.outs[call.attempt + 1]
     IN call' =
          IF o = "ok"
          THEN [call EXCEPT !.attempt = @ + 1, !.returned = TRUE,
                            !.result = "page"]
          ELSE IF o # "404" /\ retry(o, call.attempt)
          THEN [call EXCEPT !.attempt = @ + 1,
                            !.slept = Append(@, 2 ^ call.attempt)]
          ELSE [call EXCEPT !.attempt = @ + 1, !.returned = TRUE,
                            !.result = "none"]
  /\ UNCHANGED storeVars

SpecFetch ==
  InitFetch /\ [][fetch_tender_page_attempt]_vars
            /\ WF_vars(fetch_tender_page_attempt)

\* C28: _fetch_tender_page ends at the attempt that meets a 404, without a
\* page; an attempt is repeated only after a server error or a timeout, with
\* a longer sleep each time, and no more than 3 attempts are made; any other
\* error ends the fetch at its attempt; the fetch always returns, with the
\* page or with the failure value.
C28_FetchRetryPolicy ==
  /\ [](call.fn = "fetch" =>
          /\ call.attempt <= 3
          /\ \A k \in 1..(call.attempt - 1) :
               call.outs[k] \in {"5xx", "timeout"}
          /\ Len(call.slept) = call.attempt - (IF call.returned THEN 1 ELSE 0)
          /\ \A k \in 1..(Len(call.slept) - 1) :
               call.slept[k] < call.slept[k + 1]
          /\ call.returned =>
               /\ call.outs[1] = "404" => call.attempt = 1
               /\ call.result = "page" <=> call.outs[call.attempt] = "ok"
               /\ call.result \in {"page", "none"}
               /\ call.outs[call.attempt] \in {"5xx", "timeout"}
                    => call.attempt = 3
          /\ (~call.returned /\ call.attempt > 0) =>
               fetch_tender_page(call.outs).attempts > call.attempt)
  /\ <>(call.fn = "fetch" /\ call.returned)

\* two server errors, then a 404: the fetch has ended at its third attempt
\* after sleeps of 1 and 2 seconds
C28_GaveUpAfterRetries ==
  /\ call.fn = "fetch" /\ call.returned
  /\ call.outs[1] = "5xx" /\ call.outs[2] = "timeout" /\ call.outs[3] = "5xx"
  /\ call.attempt = 3 /\ call.result = "none"
  /\ call.slept = <<1, 2>>

\* ------------------------------------------------- the fetch call sites
\* what a file download can meet besides the outcomes of a page fetch: a
\* file above MAX_FILE_SIZE, a short HTML page in place of the document
DownloadOutcomes == FetchOutcomes \cup {"too_large", "html"}

InitSites ==
  InitCall(
    { [fn |-> f, outs |-> o, attempt |-> 0, slept |-> <<>>,
       returned |-> FALSE, result |-> "none"] :
         f \in {"fetch", "page"}, o \in FetchScripts }
    \cup
    { [fn |-> "download", outs |-> o, attempt |-> 0, slept |-> <<>>,
       returned |-> FALSE, result |-> "none"] :
         o \in [1..(Retries + 2) -> DownloadOutcomes] })

\* DocumentService._download_file lines 296-338: one request; a status
\* error and any other exception return None
download_file ==
  /\ call.fn = "download" /\ ~call.returned
  /\ call' = [call EXCEPT !.attempt = @ + 1, !.returned = TRUE,
                          !.result = IF call.outs[1] = "ok" THEN "file"
                                     ELSE "none"]
  /\ UNCHANGED storeVars

\* LosersService._fetch_page lines 58-73: one request; a status error and
\* any other exception return None
fetch_page ==
  /\ call.fn = "page" /\ ~call.returned
  /\ call' = [call EXCEPT !.attempt = @ + 1, !.returned = TRUE,
                          !.result = IF call.outs[1] = "ok" THEN "page"
                                     ELSE "none"]
  /\ UNCHANGED storeVars

SitesNext == fetch_tender_page_attempt \/ download_file \/ fetch_page

SpecSites == InitSites /\ [][SitesNext]_vars

\* C29: at each of the three fetch call sites - the tender page, the
\* document file, the results page of the participant extraction - a fetch
\* that meets a server error or a timeout is tried again, a bounded number
\* of times, before it reports the failure, and a fetch that meets a 404 is
\* not tried again.
C29_EverySiteRetriesTransient ==
  (call.fn \in {"fetch", "download", "page"} /\ call.returned) =>
    /\ call.attempt <= Retries + 1
    /\ call.outs[1] \in {"5xx", "timeout"} => call.attempt > 1
    /\ \A k \in 1..call.attempt : call.outs[k] = "404" => k = call.attempt

\* ------------------------------------------------- the order of the URLs
\* C30: process_tender turns to the page URLs in a fixed order - the
\* documents view, then at most 5 alternative tender types in the order of
\* their list, then the original URL; it stops at the first URL that
\* returns a page and tries none after it; and it gives up, with the tender
\* DOWNLOADED with empty text and a failure result, only when every one of
\* them has failed.
C30_UrlOrder ==
  [][\A out \in PageOutcomes(MaxAlternatives + 2), text \in {"empty", "text"} :
       process_tender(out, text) =>
         LET t == dl.batch[dl.idx]
             tried == dl'.tried
             m == Len(tried)
         IN /\ m >= 1 /\ m <= 5 + 2
            /\ \A i \in 1..(m - 1) : out[i] # "ok"
            /\ tried[1] = "documents"
            /\ \A i \in 2..m :
                 \/ i = 5 + 2 /\ tried[i] = "original"
                 \/ /\ i < 5 + 2
                    /\ tried[i][1] = "alt"
                    /\ tried[i][2] # UrlTypeOf(t)
                    /\ i > 2 => tried[i - 1][2] < tried[i][2]
            /\ dl'.html <=> out[m] = "ok"
            /\ ~dl'.html <=> /\ m = 5 + 2
                             /\ \A i \in 1..(5 + 2) : out[i] # "ok"
            /\ ~dl'.html <=> dl'.ret = "false"
            /\ ~dl'.html => /\ tenders'[t].status = "DOWNLOADED"
                            /\ tenders'[t].raw_text = "empty"]_vars

\* process_tender has stopped at the second alternative, which returned the
\* page after the documents view and the first alternative had failed
C30_StoppedAtSecondAlternative ==
  /\ dl.pc = "run"
  /\ dl.idx > 1
  /\ dl.html
  /\ dl.ret = "true"
  /\ Len(dl.tried) = 3
  /\ dl.tried[3][1] = "alt"

\* ------------------------------------------------ the extract job, alone
\* a table of completed tenders, oldest first, longer than one batch: the
\* oldest `k` have the participant rows of an earlier extraction, at most
\* MaxExtraRows have none; the youngest may still be ANALYZED
InitExtract ==
  /\ \E n \in 0..(ExtractLimit + MaxExtraRows), k \in 0..(ExtractLimit + MaxExtraRows),
        young \in BOOLEAN :
       /\ k <= n /\ n - k <= MaxExtraRows
       /\ tenders = [t \in 1..n |->
                       IF t = n /\ young THEN AnalyzedTender
                       ELSE IF t % 2 = 0 THEN NotifiedTender ELSE SoldTender]
       /\ created = [i \in 1..n |-> i]
       /\ teasers = [t \in 1..n |-> [c \in Clients |-> <<>>]]
       /\ payments = [t \in 1..n |-> [c \in Clients |-> NoPayment]]
       /\ participants = [t \in 1..k |-> NewParticipant(t, LoserPage.table[1])]
  /\ rss = [feed |-> <<>>, ingested |-> FALSE]
  /\ loser_clients = <<>>
  /\ settings \in [dadata_api_key : {FALSE}, leadgen_enabled : BOOLEAN]
  /\ Idle
  /\ clients = [c \in Clients |-> [is_active |-> FALSE, keywords |-> Words]]

\* the tender at position t of `created` was created on day t; a run on
\* day `now` (lines 457-458, 466-467) selects created_at < now - min age and
\* created_at > now - max age: the positions after window_lo, up to window_hi
Days == 0..(ExtractLimit + MaxExtraRows + LeadgenMaxAge)

window_lo(now) == IF now > LeadgenMaxAge THEN now - LeadgenMaxAge ELSE 0

\* a window that takes in the tender created exactly the minimum age ago
window_hi_inclusive(now) ==
  IF now - LeadgenMinAge < 0 THEN 0
  ELSE IF now - LeadgenMinAge > Len(created) THEN Len(created)
  ELSE now - LeadgenMinAge

window_hi(now) ==
  IF now - LeadgenMinAge - 1 < 0 THEN 0
  ELSE IF now - LeadgenMinAge - 1 > Len(created) THEN Len(created)
  ELSE now - LeadgenMinAge - 1

\* extract_losers_job / POST /leadgen/trigger on day `now`
extract_losers_job(now) ==
  process_completed_tenders(window_lo(now), window_hi(now))

ExtractNext ==
  \/ \E now \in Days : extract_losers_job(now)
  \/ \E page \in {NoPage, LoserPage} : extract_participants(page)
  \/ process_completed_tenders_except
  \/ process_shutdown

SpecExtract == InitExtract /\ [][ExtractNext]_vars

HasRows(t) == \E i \in 1..Len(participants) : participants[i].tender_id = t

\* the tenders a run on day `now` should attempt, oldest first: completed,
\* inside the window, without participant rows
Eligible(now) ==
  SelectSeq(created,
            LAMBDA t : /\ tenders[t].status \in {"NOTIFIED", "SOLD"}
                       /\ t < now - 7 /\ t > now - 30
                       /\ ~HasRows(t))

\* C31: when lead generation is enabled and a tender is eligible (NOTIFIED
\* or SOLD, inside the age window, without participant rows), a run of the
\* extract job takes the oldest eligible tenders, up to 20, into the batch
\* it attempts, however many older tenders of the window have rows already.
C31_OldestEligibleAttempted ==
  [][\A now \in Days :
       extract_losers_job(now) =>
         LET e == Eligible(now)
         IN \A j \in 1..Len(e) :
              j <= 20 => \E k \in 1..Len(ex'.batch) : ex'.batch[k] = e[j]]_vars

\* C32: the extract job creates participant rows only for a tender of its
\* batch, which when selected was NOTIFIED or SOLD and created strictly
\* inside the age window, and which has no participant rows; it creates none
\* when lead generation is disabled; and when neither the results page nor
\* the event journal loads, the extraction ends without error and changes
\* no row.
C32_RowsOnlyForEligible ==
  [][/\ \A now \in Days :
          extract_losers_job(now) =>
            /\ settings.leadgen_enabled
            /\ \A k \in 1..Len(ex'.batch) :
                 /\ tenders[ex'.batch[k]].status \in {"NOTIFIED", "SOLD"}
                 /\ ex'.batch[k] < now - 7
                 /\ ex'.batch[k] > now - 30
     /\ participants' # participants =>
          /\ settings.leadgen_enabled
          /\ ex.pc = "run"
          /\ ~HasRows(ex.batch[ex.idx])
          /\ tenders[ex.batch[ex.idx]].status \in {"NOTIFIED", "SOLD"}
          /\ Len(participants') > Len(participants)
          /\ SubSeq(participants', 1, Len(participants)) = participants
          /\ \A i \in (Len(participants) + 1)..Len(participants') :
               participants'[i].tender_id = ex.batch[ex.idx]
     /\ extract_participants(NoPage) =>
          /\ participants' = participants
          /\ tenders' = tenders
          /\ ex'.pc \in {"run", "idle"}]_vars

\* a run has made the rows of the one tender of its batch that had none,
\* after it passed over an older tender with rows
C32_RowsForTenderWithout ==
  /\ ex.pc = "run"
  /\ ex.idx = 3
  /\ HasRows(ex.batch[1])
  /\ HasRows(ex.batch[2])
  /\ participants[Len(participants)].tender_id = ex.batch[2]
  /\ Len(participants) = ex.batch[2]

\* ------------------------------------------- deep audit, map and reduce
Categories ==
  {"equipment_models", "unrealistic_deadlines", "hidden_penalties",
   "legal_risks"}

FindingLists ==
  {<<>>, <<"x">>, <<"y">>, <<"x", "y">>, <<"y", "x">>, <<"x", "x">>}

\* _analyze_chunk lines 257-259: the result of a call that raised
EmptyFindings == [c \in Categories |-> <<>>]

\* what the model answers for a chunk: an error, or the lists of the four
\* categories
ChunkReplies ==
  {[raises |-> TRUE, lists |-> EmptyFindings]} \cup
  { [raises |-> FALSE,
     lists |-> [c \in Categories |->
        IF c \in {"equipment_models", "legal_risks"} THEN a
        ELSE IF c = "hidden_penalties" THEN b ELSE <<>>]] :
      a \in FindingLists, b \in FindingLists }

\* _analyze_chunk lines 244-259
analyze_chunk_result(reply) ==
  IF reply.raises THEN EmptyFindings ELSE reply.lists

\* the results taken in the order in which the calls completed
gather_as_completed(results, done) ==
  [k \in 1..Len(done) |-> results[done[k]]]

\* asyncio.gather line 349: the results in the order of the tasks
gather(results, done) == results

\* lines 359-363: merged[key].extend(items), chunk after chunk
RECURSIVE extend_all(_, _)
extend_all(results, key) ==
  IF results = <<>> THEN <<>>
  ELSE Head(results)[key] \o extend_all(Tail(results), key)

\* line 367: list(dict.fromkeys(items)), the first of equal items stays
RECURSIVE fromkeys(_, _)
fromkeys(items, seen) ==
  IF items = <<>> THEN <<>>
  ELSE IF Head(items) \in seen THEN fromkeys(Tail(items), seen)
  ELSE <<Head(items)>> \o fromkeys(Tail(items), seen \cup {Head(items)})

InitFindings ==
  InitCall({ [fn |-> "findings", replies |-> r,
              results |-> [i \in 1..Len(r) |-> EmptyFindings],
              done |-> <<>>, pc |-> "map", merged |-> EmptyFindings,
              strategy |-> "none", assessment |-> "none",
              raised |-> FALSE] :
               r \in UNION { [1..n -> ChunkReplies] : n \in 1..MaxChunks } })

\* one of the calls issued at lines 345-349 completes
chunk_completes(i) ==
  /\ call.fn = "findings" /\ call.pc = "map"
  /\ i \in 1..Len(call.replies)
  /\ \A k \in 1..Len(call.done) : call.done[k] # i
  /\ call' = [call EXCEPT
       !.results[i] = analyze_chunk_result(call.replies[i]),
       !.done = Append(@, i)]
  /\ UNCHANGED storeVars

\* lines 349-367, once every call has completed
merge_findings ==
  /\ call.fn = "findings" /\ call.pc = "map"
  /\ Len(call.done) = Len(call.replies)
  /\ call' = [call EXCEPT
       !.pc = "reduce",
       !.merged = [c \in Categories |->
                     fromkeys(extend_all(gather(call.results, call.done), c),
                              {})]]
  /\ UNCHANGED storeVars

\* lines 377-388 with _synthesize_findings lines 295-310: out is the answer
\* of the synthesis call: both texts, an object without them, or an error
synthesis_returns(out) ==
  /\ call.fn = "findings" /\ call.pc = "reduce"
  /\ call' = [call EXCEPT
       !.pc = "returned",
       !.strategy = IF out = "texts" THEN "strategy" ELSE "placeholder",
       !.assessment = IF out = "texts" THEN "assessment" ELSE "placeholder"]
  /\ UNCHANGED storeVars

FindingsNext ==
  \/ \E i \in 1..MaxChunks : chunk_completes(i)
  \/ merge_findings
  \/ \E out \in {"texts", "empty", "raise"} : synthesis_returns(out)

SpecFindings == InitFindings /\ [][FindingsNext]_vars

\* the lists of category c in the order of the chunks, one after the other;
\* a chunk whose call failed gives none
InChunkOrder(c) ==
  LET RECURSIVE cat(_)
      cat(i) == IF i > Len(call.replies) THEN <<>>
                ELSE (IF call.replies[i].raises THEN <<>>
                      ELSE call.replies[i].lists[c]) \o cat(i + 1)
  IN cat(1)

FirstAt(seq, x) == CHOOSE i \in 1..Len(seq) : seq[i] = x /\ \A j \in 1..(i - 1) : seq[j] # x

\* C33: in analyze_deep_audit the merged list of a category is the lists of
\* the chunks put together in chunk order, each string kept at its first
\* place only, in whatever order the chunk calls completed; a chunk whose
\* call failed adds nothing and takes nothing from the others; a synthesis
\* call that failed gives the placeholder strategy and assessment, and no
\* exception leaves the function.
C33_MergedInChunkOrder ==
  (call.fn = "findings" /\ call.pc \in {"reduce", "returned"}) =>
    /\ \A c \in Categories :
         LET all == InChunkOrder(c)
             m == call.merged[c]
         IN /\ {m[i] : i \in 1..Len(m)} = {all[i] : i \in 1..Len(all)}
            /\ \A i, j \in 1..Len(m) :
                 i < j => FirstAt(all, m[i]) < FirstAt(all, m[j])
    /\ ~call.raised
    /\ call.pc = "returned" =>
         /\ call.strategy \in {"strategy", "placeholder"}
         /\ call.assessment \in {"assessment", "placeholder"}

\* the second chunk completed first, the first chunk brought x then y, the
\* second y then x, and the merged list is x, y; the synthesis failed
C33_SecondChunkFirst ==
  /\ call.fn = "findings" /\ call.pc = "returned"
  /\ call.done = <<2, 1>>
  /\ ~call.replies[1].raises /\ ~call.replies[2].raises
  /\ call.replies[1].lists["legal_risks"] = <<"x", "y">>
  /\ call.replies[2].lists["legal_risks"] = <<"y", "x">>
  /\ call.merged["legal_risks"] = <<"x", "y">>
  /\ call.strategy = "placeholder"

\* ------------------------------------------------- the usage accounting
\* _track_usage on a response: its usage is recorded, the response carries
\* none, or add_usage raises on it (a token count that is not a number)
TrackOutcomes == {"recorded", "skipped", "raises"}

\* the request counter of TokenUsage before the call: fresh, or well used
UsageStates == {0, 1000000}

\* analyze_teaser lines 172-200: _track_usage is called inside the try
\* block, before the answer is parsed
analyze_teaser_tracked(reply, track) ==
  IF reply.kind = "json" /\ track = "raises" THEN DefaultTeaser
  ELSE analyze_teaser(reply)

\* _analyze_chunk lines 244-259, likewise
analyze_chunk_tracked(reply, track) ==
  IF ~reply.raises /\ track = "raises" THEN EmptyFindings
  ELSE analyze_chunk_result(reply)

\* two runs of the same analysis on the same text with the same answer of
\* the model, each with its own counters and its own fate of the recording
InitUsage ==
  InitCall(
    { [fn |-> "usage", op |-> "teaser", teaser_reply |-> r,
       chunk_reply |-> [raises |-> TRUE, lists |-> EmptyFindings],
       runs |-> [k \in 1..2 |-> [requests_count |-> u[k], track |-> tr[k],
                                  returned |-> FALSE,
                                  teaser |-> NoTeaser,
                                  findings |-> EmptyFindings]]] :
         r \in Replies \ {Uncalled}, u \in [1..2 -> UsageStates],
         tr \in [1..2 -> TrackOutcomes] }
    \cup
    { [fn |-> "usage", op |-> "chunk", teaser_reply |-> Raises,
       chunk_reply |-> r,
       runs |-> [k \in 1..2 |-> [requests_count |-> u[k], track |-> tr[k],
                                  returned |-> FALSE,
                                  teaser |-> NoTeaser,
                                  findings |-> EmptyFindings]]] :
         r \in ChunkReplies, u \in [1..2 -> UsageStates],
         tr \in [1..2 -> TrackOutcomes] })

\* TokenUsage.add_usage line 37, reached when the call answered and the
\* recording neither is skipped nor raises
Recorded(answered, run) ==
  IF answered /\ run.track = "recorded" THEN run.requests_count + 1
  ELSE run.requests_count

\* run k of analyze_teaser
analyze_teaser_run(k) ==
  /\ call.fn = "usage" /\ call.op = "teaser" /\ ~call.runs[k].returned
  /\ call' = [call EXCEPT !.runs[k] =
       [@ EXCEPT !.returned = TRUE,
                 !.requests_count =
                    Recorded(call.teaser_reply.kind = "json", call.runs[k]),
                 !.teaser = analyze_teaser_tracked(call.teaser_reply,
                                                   call.runs[k].track)]]
  /\ UNCHANGED storeVars

\* run k of _analyze_chunk
analyze_chunk_run(k) ==
  /\ call.fn = "usage" /\ call.op = "chunk" /\ ~call.runs[k].returned
  /\ call' = [call EXCEPT !.runs[k] =
       [@ EXCEPT !.returned = TRUE,
                 !.requests_count =
                    Recorded(~call.chunk_reply.raises, call.runs[k]),
                 !.findings = analyze_chunk_tracked(call.chunk_reply,
                                                    call.runs[k].track)]]
  /\ UNCHANGED storeVars

UsageNext ==
  \/ \E k \in 1..2 : analyze_teaser_run(k)
  \/ \E k \in 1..2 : analyze_chunk_run(k)

SpecUsage == InitUsage /\ [][UsageNext]_vars

\* C34: the result of an analysis does not depend on the usage accounting:
\* two runs on the same text with the same answer of the model return the
\* same teaser (the same findings), whatever the counters hold in each and
\* whether the recording of the usage succeeds in each or not.
C34_ResultIndependentOfUsage ==
  (call.fn = "usage" /\ call.runs[1].returned /\ call.runs[2].returned) =>
    /\ call.runs[1].teaser = call.runs[2].teaser
    /\ call.runs[1].findings = call.runs[2].findings

\* ----------------------------------------------------- the client match
\* a price bound of a client (client.py lines 46-47): null, or an integer
NoBound == [set |-> FALSE, value |-> 0]
Bound(v) == [set |-> TRUE, value |-> v]
PriceBounds == {NoBound, Bound(0), Bound(MinTenderPrice), Bound(Tier2From)}

\* the subscriptions: active or not, any list of these keywords, any bounds
Subscriptions ==
  [is_active : BOOLEAN,
   keywords : SUBSET {<<"a">>, <<"A", "b">>, <<"b", "b">>},
   min_price : PriceBounds, max_price : PriceBounds]

\* the prices a stored tender can have with the floor of config.py line 45
MatchPrices ==
  {NoPrice, Price(MinTenderPrice), Price(MinTenderPrice + 1),
   Price(Tier2From - 1), Price(Tier2From), Price(Tier2From + 1)}

\* `if self.min_price and ...`: None and 0 are both false
truthy(bound) == bound.set /\ bound.value # 0

\* Client.matches_tender on the title and the price as they stand
matches_tender_cased(client, title, price) ==
  /\ client.is_active
  /\ \E kw \in client.keywords : contains(title, kw)
  /\ price.known =>
       /\ ~(truthy(client.min_price) /\ price.value < client.min_price.value)
       /\ ~(truthy(client.max_price) /\ price.value > client.max_price.value)

\* Client.matches_tender lines 77-105; find_matching_clients line 52 hands
\* it `float(tender.price) if tender.price else None`
matches_tender_text(client, title, price) ==
  /\ client.is_active
  /\ \E kw \in client.keywords : contains(lower(title), lower(kw))
  /\ (price.known /\ price.value # 0) =>
       /\ ~(truthy(client.min_price) /\ price.value < client.min_price.value)
       /\ ~(truthy(client.max_price) /\ price.value > client.max_price.value)

InitMatch ==
  InitCall({ [fn |-> "match", client |-> c, title |-> x, price |-> p,
              notified |-> n, returned |-> FALSE, attempted |-> FALSE] :
               c \in Subscriptions, x \in Strings(2), p \in MatchPrices,
               n \in BOOLEAN })

\* find_matching_clients lines 44-62 for one client and one tender, and the
\* send of send_teaser_notifications for the client it returns
find_matching_clients_call ==
  /\ call.fn = "match" /\ ~call.returned
  /\ call' = [call EXCEPT
       !.returned = TRUE,
       !.attempted =
          /\ matches_tender_text(call.client, call.title, call.price)
          /\ ~call.notified]
  /\ UNCHANGED storeVars

SpecMatch == InitMatch /\ [][find_matching_clients_call]_vars

\* C35: in a notify run a teaser is attempted for a tender and a client
\* exactly when the client is active, one of its keywords occurs in the
\* title whatever the case of the letters, the price of the tender is
\* unknown or within the bounds the client has set, and no teaser of the
\* pair exists; an inactive client and a client without keywords get none.
C35_TeaserIffMatch ==
  (call.fn = "match" /\ call.returned) =>
    LET c == call.client
        within ==
          /\ c.min_price.set => call.price.value >= c.min_price.value
          /\ c.max_price.set => call.price.value <= c.max_price.value
    IN /\ call.attempted <=>
            /\ c.is_active
            /\ \E kw \in c.keywords : OccursIgnoringCase(kw, call.title)
            /\ ~call.price.known \/ within
            /\ ~call.notified
       /\ (~c.is_active \/ c.keywords = {}) => ~call.attempted

\* C35 with the bounds as the code reads them: a bound of 0 is no bound
C35_TeaserIffMatchNonZeroBounds ==
  (call.fn = "match" /\ call.returned) =>
    LET c == call.client
        within ==
          /\ (c.min_price.set /\ c.min_price.value # 0)
                => call.price.value >= c.min_price.value
          /\ (c.max_price.set /\ c.max_price.value # 0)
                => call.price.value <= c.max_price.value
    IN /\ call.attempted <=>
            /\ c.is_active
            /\ \E kw \in c.keywords : OccursIgnoringCase(kw, call.title)
            /\ ~call.price.known \/ within
            /\ ~call.notified
       /\ (~c.is_active \/ c.keywords = {}) => ~call.attempted

\* a client whose upper bound is 0 has been sent the teaser of a tender
\* with a price, its keyword in capitals in the title
C35_ZeroBoundIsNoBound ==
  /\ call.fn = "match" /\ call.returned /\ call.attempted
  /\ call.client.max_price = Bound(0)
  /\ call.client.keywords = {<<"a">>}
  /\ call.title = <<"b", "A">>
  /\ call.price = Price(Tier2From)

\* --------------------------------------------------- the run statistics
\* the five pipeline jobs (jobs.py lines 27-135, cleanup.py lines 15-61)
PipelineJobs ==
  {"scrape_rss", "download_documents", "analyze_tenders",
   "send_notifications", "cleanup_stale_data"}

\* the jobs whose function calls job_stats.start_run and finish_run
TrackedJobs == PipelineJobs \ {"cleanup_stale_data"}

\* JobStats after register_job (job_stats.py lines 19-27, 35-38)
NoStats == [running |-> FALSE, finished |-> FALSE, success |-> TRUE,
            run_error |-> FALSE, total_runs |-> 0, last_error |-> FALSE]

\* JobStatsTracker.start_run lines 40-47
start_run(stats) ==
  [stats EXCEPT !.running = TRUE, !.finished = FALSE, !.success = TRUE,
                !.run_error = FALSE]

\* JobStatsTracker.finish_run lines 49-64
finish_run(stats, err) ==
  [stats EXCEPT !.finished = IF stats.running THEN TRUE ELSE @,
                !.success = IF stats.running THEN ~err ELSE @,
                !.run_error = IF stats.running THEN err ELSE @,
                !.total_runs = @ + 1,
                !.last_error = IF err THEN TRUE ELSE @]

\* the scheduler and its statistics: runs counts the runs begun, failed is
\* whether the last run that ended failed at the job boundary, escaped
\* whether an exception left a job
InitJobs ==
  InitCall({ [fn |-> "jobs", job |-> j, pc |-> "idle", runs |-> 0,
              failed |-> FALSE, escaped |-> FALSE, stats |-> NoStats] :
               j \in PipelineJobs })

\* the scheduler starts the job: start_run, the session is opened
job_starts ==
  /\ call.fn = "jobs" /\ call.pc = "idle"
  /\ call.runs < MaxRuns
  /\ call' = [call EXCEPT
       !.pc = "body", !.runs = @ + 1,
       !.stats = IF call.job \in TrackedJobs THEN start_run(@) ELSE @]
  /\ UNCHANGED storeVars

\* the body of the job returns: finish_run(processed) inside the session
\* block; in cleanup_stale_data_job the block ends with its own commit
body_returns ==
  /\ call.fn = "jobs" /\ call.pc = "body"
  /\ call' = [call EXCEPT
       !.pc = "exit",
       !.stats = IF call.job \in TrackedJobs THEN finish_run(@, FALSE) ELSE @]
  /\ UNCHANGED storeVars

\* the body raises: `except Exception` of the job, finish_run(error=...)
body_raises ==
  /\ call.fn = "jobs" /\ call.pc = "body"
  /\ call' = [call EXCEPT
       !.pc = "idle", !.failed = TRUE,
       !.stats = IF call.job \in TrackedJobs THEN finish_run(@, TRUE) ELSE @]
  /\ UNCHANGED storeVars

\* get_db_context lines 80-87 at the end of the block: the commit of the
\* session succeeds, or it raises and the handler of the job runs
session_exit(ok) ==
  /\ call.fn = "jobs" /\ call.pc = "exit"
  /\ call' = [call EXCEPT
       !.pc = "idle", !.failed = ~ok,
       !.stats = IF ~ok /\ call.job \in TrackedJobs THEN finish_run(@, TRUE)
                 ELSE @]
  /\ UNCHANGED storeVars

JobsNext ==
  \/ job_starts
  \/ body_returns
  \/ body_raises
  \/ \E ok \in BOOLEAN : session_exit(ok)

SpecJobs == InitJobs /\ [][JobsNext]_vars

\* C36: every run of each of the five pipeline jobs is recorded in the run
\* statistics: once a run has ended it is recorded as finished and
\* total_runs has grown by one for every run; a run that failed at the job
\* boundary is recorded with success false and its error; no exception
\* leaves a job.
C36_EveryRunRecorded ==
  (call.fn = "jobs" /\ call.pc = "idle") =>
    /\ call.stats.total_runs = call.runs
    /\ call.runs > 0 => call.stats.finished
    /\ (call.runs > 0 /\ call.failed) =>
         ~call.stats.success /\ call.stats.run_error
    /\ ~call.escaped

\* ------------------------------------------- the text of the deep audit
\* C37: when the payment-success handler runs for a tender whose documents
\* were extracted (it was analysed from its text), the deep audit is
\* computed from that text and never from an empty text, also when the
\* payment succeeds after the cleanup job has passed or after an earlier
\* sale of the tender.
C37_AuditFromExtractedText ==
  [][(/\ deep_analysis_step("ok")
      /\ tenders[wh.t].teaser = analyze_teaser(OkReply)) =>
       /\ wh.raw = "text"
       /\ tenders'[wh.t].deep_analysis = "audit"]_vars

\* ------------------------------------------- participant flags and data
\* C38: in every reachable state, also after a stop of the application
\* between two commits, a participant with client_created true has a non-null
\* email for which a client row exists, and a participant with
\* contacts_fetched false has no email, no phone and no address
C38_FlagsMatchData ==
  \A i \in 1..Len(participants) :
    /\ participants[i].client_created =>
         /\ participants[i].email # "null"
         /\ participants[i].email \in client_emails
    /\ ~participants[i].contacts_fetched =>
         /\ participants[i].email = "null"
         /\ participants[i].phone = "null"
         /\ participants[i].address = "null"

\* one participant has its client, the contacts of another are not fetched
C38_ClientCreatedNextToUnfetched ==
  \E i, j \in 1..Len(participants) :
    /\ participants[i].client_created
    /\ participants[i].phone = "phone"
    /\ ~participants[j].contacts_fetched

\* ------------------------------------ extraction, statement by statement
\* the session of one run of process_completed_tenders: the tender and the
\* parsed row it is at, the rows added and not yet committed (pending), whether
\* a statement of its transaction has failed (aborted: PostgreSQL refuses the
\* statements that follow until the rollback), the lists it parsed (extracted)
\* and the rows it has committed
NoExtraction ==
  [pc |-> "idle", batch |-> <<>>, idx |-> 0, parsed |-> <<>>, pidx |-> 0,
   pending |-> <<>>, aborted |-> FALSE, extracted |-> <<>>,
   committed |-> <<>>]

\* the tables before two runs, the job and POST /leadgen/trigger/extract, or
\* two requests: the oldest tender is completed and has no participant rows
InitPending ==
  /\ tenders \in { [t \in Tenders |-> IF t = 1 THEN NotifiedTender ELSE r] :
                     r \in {NewTender, SoldTender} }
  /\ created = [i \in 1..NumTenders |-> i]
  /\ rss = [feed |-> <<>>, ingested |-> FALSE]
  /\ participants = <<>>
  /\ loser_clients = <<>>
  /\ settings = DefaultSettings
  /\ RunsIdle
  /\ clients = [c \in Clients |-> [is_active |-> TRUE, keywords |-> Words]]
  /\ teasers = [t \in Tenders |-> [c \in Clients |-> <<>>]]
  /\ payments = [t \in Tenders |-> [c \in Clients |-> NoPayment]]
  /\ call = [fn |-> "process_completed_tenders",
             runs |-> [k \in Requests |-> NoExtraction]]

\* the pages the two runs are answered with: table rows of company c, with
\* or without a block of company b
ExtractPages ==
  { page \in Pages :
      /\ \A i \in 1..Len(page.table) : page.table[i].company_name = "c"
      /\ \A i \in 1..Len(page.blocks) : page.blocks[i].company_name = "b" }

pendingVars == <<tenders, clients, teasers, payments, dl, an, nt, cl, wh,
                 response, feedVars, loser_clients, ex, fc, cc, settings>>

\* the loop of lines 474-489 moves to the next tender, or returns
next_tender(run) ==
  IF run.idx < Len(run.batch)
  THEN [run EXCEPT !.pc = "tender", !.idx = @ + 1, !.parsed = <<>>,
                   !.pidx = 0]
  ELSE [run EXCEPT !.pc = "exit", !.parsed = <<>>, !.pidx = 0]

\* the loop of lines 279-301 moves to the next parsed row, or to the commit
next_parsed(run) ==
  IF run.pidx < Len(run.parsed) THEN [run EXCEPT !.pidx = @ + 1]
  ELSE [run EXCEPT !.pc = "commit"]

\* the stored rows of tender t with the company name
StoredRows(t, name) ==
  { i \in 1..Len(participants) :
      /\ participants[i].tender_id = t
      /\ participants[i].company_name = name }

\* session.rollback() and close() of get_db_context and get_db
rolled_back(run) == [run EXCEPT !.pc = "done", !.pending = <<>>]

\* the flush of a commit: the pending rows are stored
flushed(run) ==
  [run EXCEPT !.pending = <<>>, !.committed = @ \o run.pending]

\* process_completed_tenders lines 444-472 in the session of run k
process_completed_tenders_select(k) ==
  /\ call.fn = "process_completed_tenders"
  /\ call.runs[k].pc = "idle"
  /\ LET b == Limit(SelectSeq(created, LAMBDA t :
                       tenders[t].status \in {"NOTIFIED", "SOLD"}),
                    ExtractLimit)
     IN call' = [call EXCEPT !.runs[k] =
                   IF settings.leadgen_enabled /\ b # <<>>
                   THEN [@ EXCEPT !.pc = "tender", !.batch = b, !.idx = 1]
                   ELSE [@ EXCEPT !.pc = "exit"]]
  /\ UNCHANGED <<pendingVars, participants>>

\* lines 476-480 and extract_participants lines 256-276: the select of the
\* rows of the tender is outside the try of line 482, its exception leaves
\* the function; page is what the results page or the journal answered
select_tender_participants(k, page, fails) ==
  /\ call.fn = "process_completed_tenders"
  /\ call.runs[k].pc = "tender"
  /\ LET run == call.runs[k]
         t == run.batch[run.idx]
         has == \E i \in 1..Len(participants) : participants[i].tender_id = t
         parsed == parse_participants_from_html(page)
     IN /\ (run.aborted \/ fails \/ has) => page = NoPage
        /\ run.aborted => fails
        /\ call' = [call EXCEPT !.runs[k] =
             IF fails THEN rolled_back(run)
             ELSE IF has \/ parsed = <<>> THEN next_tender(run)
             ELSE [run EXCEPT !.pc = "loop", !.parsed = parsed, !.pidx = 1,
                              !.extracted = Append(@, [tender_id |-> t,
                                                       parsed |-> parsed])]]
  /\ UNCHANGED <<pendingVars, participants>>

\* extract_participants lines 279-301 for one parsed row: the select of lines
\* 281-288 fails, or scalar_one_or_none finds two rows and raises, or one and
\* the row is passed over, or none and the row is added to the session; the
\* exception is logged at line 489 and the loop goes on with the session as
\* it is
select_existing_participant(k, fails) ==
  /\ call.fn = "process_completed_tenders"
  /\ call.runs[k].pc = "loop"
  /\ LET run == call.runs[k]
         t == run.batch[run.idx]
         p == run.parsed[run.pidx]
         n == Cardinality(StoredRows(t, p.company_name))
     IN call' = [call EXCEPT !.runs[k] =
          IF fails THEN next_tender([run EXCEPT !.aborted = TRUE])
          ELSE IF n >= 2 THEN next_tender(run)
          ELSE IF n = 1 THEN next_parsed(run)
          ELSE next_parsed([run EXCEPT !.pending =
                              Append(@, NewParticipant(t, p))])]
  /\ UNCHANGED <<pendingVars, participants>>

\* extract_participants line 303: the commit stores the pending rows of the
\* session, or fails and rolls them back
commit_participants(k, fails) ==
  /\ call.fn = "process_completed_tenders"
  /\ call.runs[k].pc = "commit"
  /\ LET run == call.runs[k]
     IN /\ participants' = IF fails THEN participants
                           ELSE participants \o run.pending
        /\ call' = [call EXCEPT !.runs[k] =
             IF fails THEN next_tender([run EXCEPT !.pending = <<>>])
             ELSE next_tender(flushed(run))]
  /\ UNCHANGED pendingVars

\* get_db_context and get_db after the function returned: session.commit(),
\* which fails and is rolled back in a transaction with a failed statement
session_commit(k) ==
  /\ call.fn = "process_completed_tenders"
  /\ call.runs[k].pc = "exit"
  /\ LET run == call.runs[k]
     IN /\ participants' = IF run.aborted THEN participants
                           ELSE participants \o run.pending
        /\ call' = [call EXCEPT !.runs[k] =
             IF run.aborted THEN rolled_back(run)
             ELSE [flushed(run) EXCEPT !.pc = "done"]]
  /\ UNCHANGED pendingVars

\* the application stops: the open sessions are closed without a commit
sessions_closed ==
  /\ call.fn = "process_completed_tenders"
  /\ \E k \in Requests : call.runs[k].pc \notin {"idle", "done"}
  /\ call' = [call EXCEPT !.runs = [k \in Requests |->
                IF call.runs[k].pc \in {"idle", "done"} THEN call.runs[k]
                ELSE rolled_back(call.runs[k])]]
  /\ UNCHANGED <<pendingVars, participants>>

PendingNext ==
  \/ \E k \in Requests : process_completed_tenders_select(k)
  \/ \E k \in Requests, page \in ExtractPages, fails \in BOOLEAN :
       select_tender_participants(k, page, fails)
  \/ \E k \in Requests, fails \in BOOLEAN :
       select_existing_participant(k, fails)
  \/ \E k \in Requests, fails \in BOOLEAN : commit_participants(k, fails)
  \/ \E k \in Requests : session_commit(k)
  \/ sessions_closed

SpecPending == InitPending /\ [][PendingNext]_vars

\* C39: the participant rows of one extraction are stored all together or
\* not at all: in every reachable state, also after a stop of the application
\* or an exception during the extraction, a tender for which a run has stored
\* a row of an extraction has a row for every company that extraction parsed
C39_AllRowsOrNone ==
  \A k \in Requests :
    \A e \in 1..Len(call.runs[k].extracted) :
      LET x == call.runs[k].extracted[e]
      IN (\E i \in 1..Len(call.runs[k].committed) :
            call.runs[k].committed[i].tender_id = x.tender_id)
         => \A j \in 1..Len(x.parsed) :
              StoredRows(x.tender_id, x.parsed[j].company_name) # {}

\* --------------------------------------------- chunk splitter, progress
\* C40: for every text the start offsets of the chunks strictly increase,
\* every chunk has between 1 and 12000 characters, and every chunk contains
\* at least one character beyond the end of the chunk before it (the empty
\* text, which comes back as one empty chunk, set aside)
C40_EveryChunkAdvances ==
  call.fn = "split" =>
    /\ \A k \in 1..Len(call.chunks) :
         LET size == call.chunks[k][2] - call.chunks[k][1]
         IN (call.text.len > 0 => size >= 1) /\ size <= 12000
    /\ \A k \in 2..Len(call.chunks) :
         /\ call.chunks[k][1] > call.chunks[k - 1][1]
         /\ call.chunks[k][2] > call.chunks[k - 1][2]

====
